---------------------------- MODULE Spec2Model ----------------------------
(***************************************************************************)
(* A model of pageserver/src/virtual_file.rs: the pool of slots holding    *)
(* the physical file descriptors (OPEN_FILES), the clock algorithm that    *)
(* picks a victim slot, and the VirtualFile handles that cache a           *)
(* (index, tag) reference into the pool and reopen their file when the     *)
(* reference is stale.                                                     *)
(*                                                                         *)
(* Every task of the runtime is a process with a program counter; a step   *)
(* is one access to shared state (an atomic, a lock operation, a section   *)
(* protected by a held lock, or a syscall).  tokio's RwLock is modelled as *)
(* the fair (FIFO) lock its documentation describes.                       *)
(***************************************************************************)
EXTENDS Integers, Sequences, FiniteSets, TLC

(***************************************************************************)
(* Bounds of the model.                                                    *)
(***************************************************************************)
MaxSlots == 2        \* largest capacity given to init(num_slots)
NumTasks == 2        \* concurrent tasks of the runtime
MaxHandles == 3      \* VirtualFiles created in one run
NumPaths == 2        \* distinct file paths
MaxEvictions == 4    \* calls of find_victim_slot in one run
UsizeBits == 2       \* width of the clock arm (usize) in the model
PosBits == 4         \* width of a file position (u64) and of a seek offset (i64)
MaxFileLen == 6      \* longest file content
MaxSeqEvictions == 6  \* calls of find_victim_slot in one run of one task
MaxFairHandles == 2   \* VirtualFiles created under the fair executor
MaxWriteHandles == 2  \* VirtualFiles created by the task that writes sequentially
MaxClockSlots == 3    \* largest pool in the runs that follow the clock arm

Tasks == 1 .. NumTasks
Handles == 1 .. MaxHandles
Paths == 1 .. NumPaths
UsizeModulus == 2 ^ UsizeBits
U64Max == 2 ^ PosBits - 1
I64Min == 0 - 2 ^ (PosBits - 1)
I64Max == 2 ^ (PosBits - 1) - 1

(***************************************************************************)
(* tokio::sync::RwLock: fair, write-preferring.  r: the holders of a read  *)
(* guard, w: the holder of the write guard, q: the waiters in FIFO order.  *)
(***************************************************************************)
NoTask == 0
FreeLock == [r |-> {}, w |-> NoTask, q |-> <<>>]

HoldsRead(l, id) == id \in l.r
HoldsWrite(l, id) == l.w = id

\* a variant with a seeded fault: try_write succeeds beside read guards
TryWriteOk_BesideReaders(l) == l.w = NoTask

\* try_write: succeeds only when nothing is held and nobody waits
TryWriteOk(l) == l.w = NoTask /\ l.r = {} /\ l.q = <<>>

\* a variant with a seeded fault: a reader waits for the readers that hold the lock
RequestRead_Exclusive(l, id) ==
    IF TryWriteOk(l)
    THEN [l EXCEPT !.r = @ \cup {id}]
    ELSE [l EXCEPT !.q = Append(@, <<id, "r">>)]

\* read().await / write().await: take the guard at once or join the queue
RequestRead(l, id) ==
    IF l.w = NoTask /\ l.q = <<>>
    THEN [l EXCEPT !.r = @ \cup {id}]
    ELSE [l EXCEPT !.q = Append(@, <<id, "r">>)]

RequestWrite(l, id) ==
    IF TryWriteOk(l)
    THEN [l EXCEPT !.w = id]
    ELSE [l EXCEPT !.q = Append(@, <<id, "w">>)]

\* hand the lock to the waiters at the head of the queue
RECURSIVE Grant(_)
Grant(l) ==
    IF l.q = <<>> \/ l.w # NoTask THEN l
    ELSE IF Head(l.q)[2] = "r"
         THEN Grant([l EXCEPT !.r = @ \cup {Head(l.q)[1]}, !.q = Tail(@)])
         ELSE IF l.r = {}
              THEN [l EXCEPT !.w = Head(l.q)[1], !.q = Tail(@)]
              ELSE l

\* a variant with a seeded fault: the guard is dropped and the waiters are not woken
Release_NoWake(l, id) ==
    [l EXCEPT !.r = @ \ {id}, !.w = IF @ = id THEN NoTask ELSE @]

\* dropping a guard
Release(l, id) ==
    Grant([l EXCEPT !.r = @ \ {id}, !.w = IF @ = id THEN NoTask ELSE @])

\* RwLockWriteGuard::downgrade
Downgrade(l, id) == Grant([l EXCEPT !.w = NoTask, !.r = {id}])

(***************************************************************************)
(* Physical files.  A descriptor (std::fs::File) remembers the path it was *)
(* opened on and its access mode; owner is the VirtualFile that opened it. *)
(***************************************************************************)
Absent == <<-1>>
NoFile == [path |-> 0, owner |-> 0, read |-> FALSE, write |-> FALSE]
NoHandle == [index |-> 0, tag |-> 0]

OptRead == [read |-> TRUE, write |-> FALSE, create |-> FALSE, create_new |-> FALSE, truncate |-> FALSE]
OptCreate == [read |-> FALSE, write |-> TRUE, create |-> TRUE, create_new |-> FALSE, truncate |-> TRUE]
OptCreateNew == [read |-> FALSE, write |-> TRUE, create |-> FALSE, create_new |-> TRUE, truncate |-> FALSE]
OptReadWrite == [read |-> TRUE, write |-> TRUE, create |-> TRUE, create_new |-> FALSE, truncate |-> TRUE]
OptionSets == {OptRead, OptCreate, OptCreateNew, OptReadWrite}

VARIABLES
    slots,       \* OPEN_FILES.slots: index -> [tag, file, recently_used]
    slot_lock,   \* Slot.inner's RwLock, per slot
    next,        \* OPEN_FILES.next, the clock arm
    vfiles,      \* the VirtualFiles: [state, handle, pos, path, open_options]
    handle_lock, \* VirtualFile.handle's RwLock, per VirtualFile
    fs,          \* the file system: path -> content, or Absent
    tasks,       \* the tasks: program counter and locals
    cleanup,     \* the tasks spawned by Drop, per VirtualFile
    OPEN_FILES,  \* the OnceCell that holds the pool: "unset" or "set"
    cfg_test,    \* cfg!(test): the build is a test build
    cso          \* the calls of crashsafe_overwrite, per task: where the call is

vars == <<slots, slot_lock, next, vfiles, handle_lock, fs, tasks, cleanup,
          OPEN_FILES, cfg_test, cso>>
pool == <<slots, slot_lock, next, OPEN_FILES>>

\* self.slots.len()
num_slots == Cardinality(DOMAIN slots)
Slots == DOMAIN slots


(***************************************************************************)
(* The syscalls, as functions of the file system.                          *)
(***************************************************************************)
Min(a, b) == IF a < b THEN a ELSE b
Max(a, b) == IF a > b THEN a ELSE b

\* a variant with a seeded fault: truncate leaves the old content
PhysOpen_KeepContent(p, o, fsys, h, fault) ==
    LET fail(e) == [ok |-> FALSE, err |-> e, file |-> NoFile, fs |-> fsys]
        file == [path |-> p, owner |-> h, read |-> o.read, write |-> o.write]
        done(c) == [ok |-> TRUE, err |-> "none", file |-> file,
                    fs |-> [fsys EXCEPT ![p] = c]]
    IN  IF fault # "none" THEN fail(fault)
        ELSE IF ~o.read /\ ~o.write THEN fail("EINVAL")
        ELSE IF (o.create \/ o.create_new \/ o.truncate) /\ ~o.write THEN fail("EINVAL")
        ELSE IF o.create_new
             THEN IF fsys[p] # Absent THEN fail("EEXIST") ELSE done(<<>>)
        ELSE IF fsys[p] = Absent
             THEN IF o.create THEN done(<<>>) ELSE fail("ENOENT")
        ELSE done(fsys[p])

\* OpenOptions::open(path): [ok, err, file, fs]
PhysOpen(p, o, fsys, h, fault) ==
    LET fail(e) == [ok |-> FALSE, err |-> e, file |-> NoFile, fs |-> fsys]
        file == [path |-> p, owner |-> h, read |-> o.read, write |-> o.write]
        done(c) == [ok |-> TRUE, err |-> "none", file |-> file,
                    fs |-> [fsys EXCEPT ![p] = c]]
    IN  IF fault # "none" THEN fail(fault)
        ELSE IF ~o.read /\ ~o.write THEN fail("EINVAL")
        ELSE IF (o.create \/ o.create_new \/ o.truncate) /\ ~o.write THEN fail("EINVAL")
        ELSE IF o.create_new
             THEN IF fsys[p] # Absent THEN fail("EEXIST") ELSE done(<<>>)
        ELSE IF fsys[p] = Absent
             THEN IF o.create THEN done(<<>>) ELSE fail("ENOENT")
        ELSE IF o.truncate THEN done(<<>>)
        ELSE done(fsys[p])

\* the bytes of content c at offset .. offset + len - 1
Bytes(c, offset, len) ==
    IF offset >= Len(c) THEN <<>>
    ELSE SubSeq(c, offset + 1, Min(Len(c), offset + len))

\* content c with buf written at offset (a hole is filled with zeros)
Overwrite(c, buf, offset) ==
    [i \in 1 .. Max(Len(c), offset + Len(buf)) |->
        IF i > offset /\ i <= offset + Len(buf) THEN buf[i - offset]
        ELSE IF i <= Len(c) THEN c[i]
        ELSE 0]

NoRes == [ok |-> TRUE, err |-> "none", n |-> 0, data |-> <<>>]
OkRes(n, data) == [ok |-> TRUE, err |-> "none", n |-> n, data |-> data]
ErrRes(e) == [ok |-> FALSE, err |-> e, n |-> 0, data |-> <<>>]

\* FileExt::read_at(buf, offset) on descriptor f
SysReadAt(f, fsys, len, offset) ==
    IF ~f.read THEN ErrRes("EBADF")
    ELSE LET b == Bytes(fsys[f.path], offset, len) IN OkRes(Len(b), b)

\* FileExt::write_at(buf, offset) on descriptor f: [res, fs]
SysWriteAt(f, fsys, buf, offset) ==
    IF ~f.write THEN [res |-> ErrRes("EBADF"), fs |-> fsys]
    ELSE IF offset + Len(buf) > MaxFileLen THEN [res |-> ErrRes("ENOSPC"), fs |-> fsys]
    ELSE [res |-> OkRes(Len(buf), <<>>),
          fs |-> [fsys EXCEPT ![f.path] = Overwrite(@, buf, offset)]]

\* File::seek(SeekFrom::End(offset)): lseek(fd, offset, SEEK_END)
SysSeekEnd(f, fsys, offset) ==
    LET pos == Len(fsys[f.path]) + offset
    IN  IF pos < 0 THEN ErrRes("EINVAL")
        ELSE IF pos > I64Max THEN ErrRes("EOVERFLOW")
        ELSE OkRes(pos, <<>>)

\* File::metadata(): the length stands for the metadata
SysMetadata(f, fsys) == OkRes(Len(fsys[f.path]), <<>>)

\* File::sync_all()
SysSyncAll(f, fsys) == OkRes(0, <<>>)

(***************************************************************************)
(* Tasks and VirtualFiles.                                                 *)
(***************************************************************************)
NoOp == [kind |-> "none", path |-> 0, opts |-> OptRead, off |-> 0, len |-> 0, buf |-> <<>>]
IdleTask == [pc |-> "idle", h |-> 0, op |-> NoOp, lh |-> NoHandle, idx |-> 0,
             retries |-> 0, file |-> NoFile, via |-> "none", res |-> NoRes,
             acc |-> <<>>]
NoVFile == [state |-> "unopened", handle |-> NoHandle, pos |-> 0, path |-> 0,
            open_options |-> OptRead]
EmptySlot == [tag |-> 0, file |-> NoFile, recently_used |-> FALSE]

\* OpenFiles::new(n): n empty slots, the clock arm at 0
NewSlots(n) == [i \in 0 .. (n - 1) |-> EmptySlot]
NewLocks(n) == [i \in 0 .. (n - 1) |-> FreeLock]

\* the page server has started: init(n) has set OPEN_FILES to OpenFiles::new(n)
InitPool(n) ==
    /\ slots = NewSlots(n)
    /\ slot_lock = NewLocks(n)
    /\ next = 0
    /\ OPEN_FILES = "set"
    /\ cfg_test = FALSE

\* a task that is not in crashsafe_overwrite; n counts its calls.  While it
\* is in the call: the arguments, the VirtualFile the call holds, the result it
\* is going to return, and what the call has made of the file system: old is
\* final_path when the call began, synced the number of bytes of the file at
\* tmp_path that are on the disk, renamed and dir_synced whether the rename
\* has been done and is on the disk
NoFrame == [stage |-> "none", final |-> 0, tmp |-> 0, content |-> <<>>, h |-> 0,
            res |-> NoRes, old |-> Absent, synced |-> 0, renamed |-> FALSE,
            dir_synced |-> FALSE, n |-> 0]

InitHandles ==
    /\ vfiles = [h \in Handles |-> NoVFile]
    /\ handle_lock = [h \in Handles |-> FreeLock]
    /\ tasks = [t \in Tasks |-> IdleTask]
    /\ cleanup = [h \in Handles |-> "none"]
    /\ cso = [t \in Tasks |-> NoFrame]

RECURSIVE SumTags(_)
SumTags(S) ==
    IF S = {} THEN 0
    ELSE LET i == CHOOSE x \in S : TRUE IN slots[i].tag + SumTags(S \ {i})

\* the tasks that may still call find_victim_slot or are inside it
Busy == Cardinality({t \in Tasks : tasks[t].pc \in
            {"lf_handle_read", "lf_copy", "lf_slot_read", "lf_check",
             "lf_handle_write", "lf_recheck",
             "fv_fetch", "fv_swap", "fv_try", "fv_write", "fv_take"}})

\* the model stops starting operations once max calls of find_victim_slot
\* are made or may still be made
Budget(max) == SumTags(Slots) + Busy < max

InUse(h) == \E t \in Tasks : tasks[t].pc # "idle" /\ tasks[t].h = h

CleanupId(h) == NumTasks + h

\* the task when its operation returns res: the locals are gone, what the
\* caller sees (the VirtualFile, the operation, its result) is kept
Done(task, res) ==
    [IdleTask EXCEPT !.pc = "done", !.h = task.h, !.op = task.op,
                     !.via = task.via, !.res = res]

(***************************************************************************)
(* init and get_open_files.                                                *)
(***************************************************************************)
TEST_MAX_FILE_DESCRIPTORS == 10

\* a variant with a seeded fault: a second init replaces the pool
init_Replace(t, n) ==
    /\ tasks[t].pc = "idle"
    /\ slots' = NewSlots(n)
    /\ slot_lock' = NewLocks(n)
    /\ next' = 0
    /\ OPEN_FILES' = "set"
    /\ tasks' = [tasks EXCEPT ![t] =
                   Done([IdleTask EXCEPT !.op = [NoOp EXCEPT !.kind = "init",
                                                             !.len = n]],
                        OkRes(0, <<>>))]
    /\ UNCHANGED <<vfiles, handle_lock, fs, cleanup, cfg_test, cso>>

\* init(num_slots): OPEN_FILES.set(OpenFiles::new(num_slots)), a panic if
\* the cell was set
init(t, n) ==
    /\ tasks[t].pc = "idle"
    /\ LET call == [IdleTask EXCEPT !.op = [NoOp EXCEPT !.kind = "init", !.len = n]]
       IN  IF OPEN_FILES = "unset"
           THEN /\ slots' = NewSlots(n)
                /\ slot_lock' = NewLocks(n)
                /\ next' = 0
                /\ OPEN_FILES' = "set"
                /\ tasks' = [tasks EXCEPT ![t] = Done(call, OkRes(0, <<>>))]
           ELSE /\ tasks' = [tasks EXCEPT ![t] = Done(call, ErrRes("panic"))]
                /\ UNCHANGED <<slots, slot_lock, next, OPEN_FILES>>
    /\ UNCHANGED <<vfiles, handle_lock, fs, cleanup, cfg_test, cso>>

(***************************************************************************)
(* OpenFiles::find_victim_slot.                                            *)
(***************************************************************************)
\* a variant with a seeded fault: the sweep goes round three times before it waits
fv_fetch_Longer(t) ==
    /\ tasks[t].pc = "fv_fetch"
    /\ next' = (next + 1) % UsizeModulus
    /\ tasks' = [tasks EXCEPT ![t].idx = next % num_slots,
                              ![t].pc = IF tasks[t].retries < num_slots * 3
                                        THEN "fv_swap" ELSE "fv_write"]
    /\ UNCHANGED <<slots, slot_lock, vfiles, handle_lock, fs, cleanup, OPEN_FILES, cfg_test, cso>>

\* a variant with a seeded fault: the clock arm moves two slots at a time
fv_fetch_Twice(t) ==
    /\ tasks[t].pc = "fv_fetch"
    /\ next' = (next + 2) % UsizeModulus
    /\ tasks' = [tasks EXCEPT ![t].idx = next % num_slots,
                              ![t].pc = IF tasks[t].retries < num_slots * 2
                                        THEN "fv_swap" ELSE "fv_write"]
    /\ UNCHANGED <<slots, slot_lock, vfiles, handle_lock, fs, cleanup, OPEN_FILES, cfg_test, cso>>

\* let next = self.next.fetch_add(1) % num_slots; if retries < num_slots * 2.
\* fetch_add wraps at the width of usize.  In a pool without slots the
\* remainder by zero panics after the fetch_add; only an open gets here then,
\* no VirtualFile exists
fv_fetch(t) ==
    /\ tasks[t].pc = "fv_fetch"
    /\ next' = (next + 1) % UsizeModulus
    /\ IF num_slots = 0
       THEN /\ tasks' = [tasks EXCEPT ![t] = Done(@, ErrRes("panic"))]
            /\ vfiles' = [vfiles EXCEPT ![tasks[t].h].state = "unopened"]
       ELSE /\ tasks' = [tasks EXCEPT ![t].idx = next % num_slots,
                                     ![t].pc = IF tasks[t].retries < num_slots * 2
                                               THEN "fv_swap" ELSE "fv_write"]
            /\ UNCHANGED vfiles
    /\ UNCHANGED <<slots, slot_lock, handle_lock, fs, cleanup, OPEN_FILES, cfg_test, cso>>

\* a variant with a seeded fault: the recently_used flag does not save the slot
fv_swap_Ignore(t) ==
    /\ tasks[t].pc = "fv_swap"
    /\ slots' = [slots EXCEPT ![tasks[t].idx].recently_used = FALSE]
    /\ tasks' = [tasks EXCEPT ![t].pc = "fv_try"]
    /\ UNCHANGED <<slot_lock, next, vfiles, handle_lock, fs, cleanup, OPEN_FILES, cfg_test, cso>>

\* if !slot.recently_used.swap(false) { try } else { retries += 1 }
fv_swap(t) ==
    /\ tasks[t].pc = "fv_swap"
    /\ slots' = [slots EXCEPT ![tasks[t].idx].recently_used = FALSE]
    /\ tasks' = IF slots[tasks[t].idx].recently_used
                THEN [tasks EXCEPT ![t].retries = @ + 1, ![t].pc = "fv_fetch"]
                ELSE [tasks EXCEPT ![t].pc = "fv_try"]
    /\ UNCHANGED <<slot_lock, next, vfiles, handle_lock, fs, cleanup, OPEN_FILES, cfg_test, cso>>

\* a variant with a seeded fault: a locked slot is waited for instead of skipped
fv_try_Wait(t) ==
    /\ tasks[t].pc = "fv_try"
    /\ slot_lock' = [slot_lock EXCEPT ![tasks[t].idx] = RequestWrite(@, t)]
    /\ tasks' = [tasks EXCEPT ![t].pc = "fv_take"]
    /\ UNCHANGED <<slots, next, vfiles, handle_lock, fs, cleanup, OPEN_FILES, cfg_test, cso>>

\* if let Ok(guard) = slot.inner.try_write() { break } retries += 1
fv_try(t) ==
    /\ tasks[t].pc = "fv_try"
    /\ IF TryWriteOk(slot_lock[tasks[t].idx])
       THEN /\ slot_lock' = [slot_lock EXCEPT ![tasks[t].idx].w = t]
            /\ tasks' = [tasks EXCEPT ![t].pc = "fv_take"]
       ELSE /\ tasks' = [tasks EXCEPT ![t].retries = @ + 1, ![t].pc = "fv_fetch"]
            /\ UNCHANGED slot_lock
    /\ UNCHANGED <<slots, next, vfiles, handle_lock, fs, cleanup, OPEN_FILES, cfg_test, cso>>

\* slot_guard = slot.inner.write().await, the request
fv_write(t) ==
    /\ tasks[t].pc = "fv_write"
    /\ slot_lock' = [slot_lock EXCEPT ![tasks[t].idx] = RequestWrite(@, t)]
    /\ tasks' = [tasks EXCEPT ![t].pc = "fv_take"]
    /\ UNCHANGED <<slots, next, vfiles, handle_lock, fs, cleanup, OPEN_FILES, cfg_test, cso>>

\* a variant with a seeded fault: the recently_used flag of the victim is not set
TakeSlot_FlagKept(s) == [s EXCEPT !.tag = @ + 1, !.file = NoFile]

\* a variant with a seeded fault: the old file is left in the slot
TakeSlot_KeepFile(s) == [s EXCEPT !.tag = @ + 1, !.recently_used = TRUE]

\* a variant with a seeded fault: the tag is not incremented
TakeSlot_SameTag(s) == [s EXCEPT !.file = NoFile, !.recently_used = TRUE]

\* the victim with its old file closed, its tag incremented, recently_used set
TakeSlot(s) == [tag |-> s.tag + 1, file |-> NoFile, recently_used |-> TRUE]

\* the slot is locked: slot_guard.file.take(), tag += 1, recently_used = true
fv_take(t) ==
    /\ tasks[t].pc = "fv_take"
    /\ HoldsWrite(slot_lock[tasks[t].idx], t)
    /\ slots' = [slots EXCEPT ![tasks[t].idx] = TakeSlot(@)]
    /\ tasks' = [tasks EXCEPT
                   ![t].lh = [index |-> tasks[t].idx,
                              tag |-> slots'[tasks[t].idx].tag],
                   ![t].retries = 0,
                   ![t].pc = IF tasks[t].op.kind = "open"
                             THEN "open_sys" ELSE "reopen_sys"]
    /\ UNCHANGED <<slot_lock, next, vfiles, handle_lock, fs, cleanup, OPEN_FILES, cfg_test, cso>>

(***************************************************************************)
(* VirtualFile::open_with_options.                                         *)
(***************************************************************************)
FreeHandle == CHOOSE h \in Handles :
                 /\ vfiles[h].state = "unopened"
                 /\ \A g \in Handles : vfiles[g].state = "unopened" => h <= g

\* the call, up to find_victim_slot(): get_open_files() returns the pool,
\* which a test build creates on first use, or panics
open_with_options(t, p, o) ==
    /\ tasks[t].pc = "idle"
    /\ \E h \in Handles : vfiles[h].state = "unopened"
    /\ LET call == [IdleTask EXCEPT !.h = FreeHandle,
                                    !.op = [NoOp EXCEPT !.kind = "open",
                                                        !.path = p, !.opts = o]]
           enter == /\ vfiles' = [vfiles EXCEPT ![FreeHandle].state = "opening"]
                    /\ tasks' = [tasks EXCEPT ![t] = [call EXCEPT !.pc = "fv_fetch"]]
       IN  IF OPEN_FILES = "set"
           THEN enter /\ UNCHANGED <<slots, slot_lock, next, OPEN_FILES>>
           ELSE IF cfg_test
           THEN /\ enter
                /\ slots' = NewSlots(TEST_MAX_FILE_DESCRIPTORS)
                /\ slot_lock' = NewLocks(TEST_MAX_FILE_DESCRIPTORS)
                /\ next' = 0
                /\ OPEN_FILES' = "set"
           ELSE /\ tasks' = [tasks EXCEPT ![t] = Done(call, ErrRes("panic"))]
                /\ UNCHANGED <<slots, slot_lock, next, OPEN_FILES, vfiles>>
    /\ UNCHANGED <<handle_lock, fs, cleanup, cfg_test, cso>>

\* a variant with a seeded fault: the options of the first open are stored as they are
ReopenOptions_Unstripped(o) == o

\* a variant with a seeded fault: a reopen asks for both access modes
ReopenOptions_ReadWrite(o) ==
    [o EXCEPT !.create = FALSE, !.create_new = FALSE, !.truncate = FALSE,
              !.read = TRUE, !.write = TRUE]

\* reopen_options: create, create_new and truncate cleared
ReopenOptions(o) ==
    [o EXCEPT !.create = FALSE, !.create_new = FALSE, !.truncate = FALSE]

\* a variant with a seeded fault: the slot's write guard outlives the failed open
open_sys_KeepLock(t, fault) ==
    /\ tasks[t].pc = "open_sys"
    /\ LET r == PhysOpen(tasks[t].op.path, tasks[t].op.opts, fs, tasks[t].h, fault)
       IN  IF r.ok
           THEN /\ fs' = r.fs
                /\ tasks' = [tasks EXCEPT ![t].file = r.file, ![t].pc = "open_install"]
                /\ UNCHANGED vfiles
           ELSE /\ vfiles' = [vfiles EXCEPT ![tasks[t].h].state = "unopened"]
                /\ tasks' = [tasks EXCEPT ![t] = Done(@, ErrRes(r.err))]
                /\ UNCHANGED fs
    /\ UNCHANGED <<slots, slot_lock, next, handle_lock, cleanup, OPEN_FILES, cfg_test, cso>>

\* let file = open_options.open(path)?
open_sys(t, fault) ==
    /\ tasks[t].pc = "open_sys"
    /\ LET r == PhysOpen(tasks[t].op.path, tasks[t].op.opts, fs, tasks[t].h, fault)
       IN  IF r.ok
           THEN /\ fs' = r.fs
                /\ tasks' = [tasks EXCEPT ![t].file = r.file, ![t].pc = "open_install"]
                /\ UNCHANGED <<slot_lock, vfiles>>
           ELSE /\ slot_lock' = [slot_lock EXCEPT ![tasks[t].idx] = Release(@, t)]
                /\ vfiles' = [vfiles EXCEPT ![tasks[t].h].state = "unopened"]
                /\ tasks' = [tasks EXCEPT ![t] = Done(@, ErrRes(r.err))]
                /\ UNCHANGED fs
    /\ UNCHANGED <<slots, next, handle_lock, cleanup, OPEN_FILES, cfg_test, cso>>

\* a variant with a seeded fault: the opened file is not put in the slot
open_install_NoFile(t) ==
    /\ tasks[t].pc = "open_install"
    /\ vfiles' = [vfiles EXCEPT ![tasks[t].h] =
                    [state |-> "live", handle |-> tasks[t].lh, pos |-> 0,
                     path |-> tasks[t].op.path,
                     open_options |-> ReopenOptions(tasks[t].op.opts)]]
    /\ slot_lock' = [slot_lock EXCEPT ![tasks[t].idx] = Release(@, t)]
    /\ tasks' = [tasks EXCEPT ![t] = Done(@, OkRes(0, <<>>))]
    /\ UNCHANGED <<slots, next, handle_lock, fs, cleanup, OPEN_FILES, cfg_test, cso>>

\* the VirtualFile is built, slot_guard.file.replace(file), the guard dropped
open_install(t) ==
    /\ tasks[t].pc = "open_install"
    /\ vfiles' = [vfiles EXCEPT ![tasks[t].h] =
                    [state |-> "live", handle |-> tasks[t].lh, pos |-> 0,
                     path |-> tasks[t].op.path,
                     open_options |-> ReopenOptions(tasks[t].op.opts)]]
    /\ slots' = [slots EXCEPT ![tasks[t].idx].file = tasks[t].file]
    /\ slot_lock' = [slot_lock EXCEPT ![tasks[t].idx] = Release(@, t)]
    /\ tasks' = [tasks EXCEPT ![t] = Done(@, OkRes(0, <<>>))]
    /\ UNCHANGED <<next, handle_lock, fs, cleanup, OPEN_FILES, cfg_test, cso>>

(***************************************************************************)
(* VirtualFile::lock_file.                                                 *)
(***************************************************************************)
\* let mut handle = *self.handle.read().await: the read guard is taken, the
\* handle copied and the guard dropped at once when the lock is free;
\* otherwise the task joins the queue
EnterLockFile(t, h, task) ==
    IF RequestRead(handle_lock[h], t).q = <<>>
    THEN /\ tasks' = [tasks EXCEPT ![t] = [task EXCEPT !.lh = vfiles[h].handle,
                                                       !.pc = "lf_slot_read"]]
         /\ UNCHANGED handle_lock
    ELSE /\ tasks' = [tasks EXCEPT ![t] = [task EXCEPT !.pc = "lf_copy"]]
         /\ handle_lock' = [handle_lock EXCEPT ![h] = RequestRead(@, t)]

\* an operation that goes through with_file!, entering lock_file
StartOp(t, h, op) ==
    /\ tasks[t].pc = "idle"
    /\ vfiles[h].state = "live"
    /\ EnterLockFile(t, h, [IdleTask EXCEPT !.h = h, !.op = op])
    /\ UNCHANGED <<slots, slot_lock, next, vfiles, fs, cleanup, OPEN_FILES, cfg_test, cso>>

\* the next round of a loop (write_all, read_to_end) enters lock_file again
lf_handle_read(t) ==
    /\ tasks[t].pc = "lf_handle_read"
    /\ EnterLockFile(t, tasks[t].h, tasks[t])
    /\ UNCHANGED <<slots, slot_lock, next, vfiles, fs, cleanup, OPEN_FILES, cfg_test, cso>>

\* the queued read guard is granted: the handle is copied, the guard dropped
lf_copy(t) ==
    /\ tasks[t].pc = "lf_copy"
    /\ HoldsRead(handle_lock[tasks[t].h], t)
    /\ handle_lock' = [handle_lock EXCEPT ![tasks[t].h] = Release(@, t)]
    /\ tasks' = [tasks EXCEPT ![t].lh = vfiles[tasks[t].h].handle,
                              ![t].pc = "lf_slot_read"]
    /\ UNCHANGED <<slots, slot_lock, next, vfiles, fs, cleanup, OPEN_FILES, cfg_test, cso>>

\* let slot_guard = slot.inner.read().await, the request
lf_slot_read(t) ==
    /\ tasks[t].pc = "lf_slot_read"
    /\ slot_lock' = [slot_lock EXCEPT ![tasks[t].lh.index] = RequestRead(@, t)]
    /\ tasks' = [tasks EXCEPT ![t].idx = tasks[t].lh.index, ![t].pc = "lf_check"]
    /\ UNCHANGED <<slots, next, vfiles, handle_lock, fs, cleanup, OPEN_FILES, cfg_test, cso>>

\* a variant with a seeded fault: the tag is not compared
SlotValid_AnyTag(s, handle) == s.file # NoFile

\* if slot_guard.tag == handle.tag && slot_guard.file.is_some()
SlotValid(s, handle) == s.tag = handle.tag /\ s.file # NoFile

\* a variant with a seeded fault: the slot's read guard is kept while the handle's write lock is taken
lf_check_KeepGuard(t) ==
    /\ tasks[t].pc = "lf_check"
    /\ HoldsRead(slot_lock[tasks[t].idx], t)
    /\ IF SlotValid(slots[tasks[t].idx], tasks[t].lh)
       THEN /\ slots' = [slots EXCEPT ![tasks[t].idx].recently_used = TRUE]
            /\ tasks' = [tasks EXCEPT ![t].pc = "io", ![t].lh = NoHandle,
                            ![t].via = IF @ = "none" THEN "cached" ELSE @]
       ELSE /\ tasks' = [tasks EXCEPT ![t].pc = "lf_handle_write"]
            /\ UNCHANGED slots
    /\ UNCHANGED <<slot_lock, next, vfiles, handle_lock, fs, cleanup, OPEN_FILES, cfg_test, cso>>

\* the check under the slot's read guard
lf_check(t) ==
    /\ tasks[t].pc = "lf_check"
    /\ HoldsRead(slot_lock[tasks[t].idx], t)
    /\ IF SlotValid(slots[tasks[t].idx], tasks[t].lh)
       THEN /\ slots' = [slots EXCEPT ![tasks[t].idx].recently_used = TRUE]
            /\ tasks' = [tasks EXCEPT ![t].pc = "io", ![t].lh = NoHandle,
                            ![t].via = IF @ = "none" THEN "cached" ELSE @]
            /\ UNCHANGED slot_lock
       ELSE /\ slot_lock' = [slot_lock EXCEPT ![tasks[t].idx] = Release(@, t)]
            /\ tasks' = [tasks EXCEPT ![t].pc = "lf_handle_write"]
            /\ UNCHANGED slots
    /\ UNCHANGED <<next, vfiles, handle_lock, fs, cleanup, OPEN_FILES, cfg_test, cso>>

\* let handle_guard = self.handle.write().await, the request
lf_handle_write(t) ==
    /\ tasks[t].pc = "lf_handle_write"
    /\ handle_lock' = [handle_lock EXCEPT ![tasks[t].h] = RequestWrite(@, t)]
    /\ tasks' = [tasks EXCEPT ![t].pc = "lf_recheck"]
    /\ UNCHANGED <<slots, slot_lock, next, vfiles, fs, cleanup, OPEN_FILES, cfg_test, cso>>

\* a variant with a seeded fault: the handle is not compared under the write guard
lf_recheck_Reopen(t) ==
    /\ tasks[t].pc = "lf_recheck"
    /\ HoldsWrite(handle_lock[tasks[t].h], t)
    /\ tasks' = [tasks EXCEPT ![t].retries = 0, ![t].pc = "fv_fetch"]
    /\ UNCHANGED <<slots, slot_lock, next, vfiles, handle_lock, fs, cleanup, OPEN_FILES, cfg_test, cso>>

\* a variant with a seeded fault: the handle's write guard is dropped before the reopen
lf_recheck_Unlock(t) ==
    /\ tasks[t].pc = "lf_recheck"
    /\ HoldsWrite(handle_lock[tasks[t].h], t)
    /\ handle_lock' = [handle_lock EXCEPT ![tasks[t].h] = Release(@, t)]
    /\ tasks' = IF vfiles[tasks[t].h].handle # tasks[t].lh
                THEN [tasks EXCEPT ![t].lh = vfiles[tasks[t].h].handle,
                                   ![t].via = "repaired",
                                   ![t].pc = "lf_slot_read"]
                ELSE [tasks EXCEPT ![t].retries = 0, ![t].pc = "fv_fetch"]
    /\ UNCHANGED <<slots, slot_lock, next, vfiles, fs, cleanup, OPEN_FILES, cfg_test, cso>>

\* a variant with a seeded fault: a reference that is still stale under the write guard is an error
lf_recheck_Fail(t) ==
    /\ tasks[t].pc = "lf_recheck"
    /\ HoldsWrite(handle_lock[tasks[t].h], t)
    /\ handle_lock' = [handle_lock EXCEPT ![tasks[t].h] = Release(@, t)]
    /\ tasks' = IF vfiles[tasks[t].h].handle # tasks[t].lh
                THEN [tasks EXCEPT ![t].lh = vfiles[tasks[t].h].handle,
                                   ![t].via = "repaired",
                                   ![t].pc = "lf_slot_read"]
                ELSE [tasks EXCEPT ![t] = Done(@, ErrRes("stale"))]
    /\ UNCHANGED <<slots, slot_lock, next, vfiles, fs, cleanup, OPEN_FILES, cfg_test, cso>>

\* if *handle_guard != handle { handle = *handle_guard; continue } break
lf_recheck(t) ==
    /\ tasks[t].pc = "lf_recheck"
    /\ HoldsWrite(handle_lock[tasks[t].h], t)
    /\ IF vfiles[tasks[t].h].handle # tasks[t].lh
       THEN /\ handle_lock' = [handle_lock EXCEPT ![tasks[t].h] = Release(@, t)]
            /\ tasks' = [tasks EXCEPT ![t].lh = vfiles[tasks[t].h].handle,
                                      ![t].via = "repaired",
                                      ![t].pc = "lf_slot_read"]
       ELSE /\ tasks' = [tasks EXCEPT ![t].retries = 0, ![t].pc = "fv_fetch"]
            /\ UNCHANGED handle_lock
    /\ UNCHANGED <<slots, slot_lock, next, vfiles, fs, cleanup, OPEN_FILES, cfg_test, cso>>

\* a variant with a seeded fault: the new handle is stored before the reopen is known to succeed
reopen_sys_StoreHandle(t, fault) ==
    /\ tasks[t].pc = "reopen_sys"
    /\ LET h == tasks[t].h
           r == PhysOpen(vfiles[h].path, vfiles[h].open_options, fs, h, fault)
       IN  /\ vfiles' = [vfiles EXCEPT ![h].handle = tasks[t].lh]
           /\ IF r.ok
              THEN /\ fs' = r.fs
                   /\ tasks' = [tasks EXCEPT ![t].file = r.file,
                                             ![t].pc = "reopen_install"]
                   /\ UNCHANGED <<slot_lock, handle_lock>>
              ELSE /\ slot_lock' = [slot_lock EXCEPT ![tasks[t].idx] = Release(@, t)]
                   /\ handle_lock' = [handle_lock EXCEPT ![h] = Release(@, t)]
                   /\ tasks' = [tasks EXCEPT ![t] =
                                  Done([@ EXCEPT !.via = "reopen_failed"], ErrRes(r.err))]
                   /\ UNCHANGED fs
    /\ UNCHANGED <<slots, next, cleanup, OPEN_FILES, cfg_test, cso>>

\* let file = self.open_options.open(&self.path)?
reopen_sys(t, fault) ==
    /\ tasks[t].pc = "reopen_sys"
    /\ LET h == tasks[t].h
           r == PhysOpen(vfiles[h].path, vfiles[h].open_options, fs, h, fault)
       IN  IF r.ok
           THEN /\ fs' = r.fs
                /\ tasks' = [tasks EXCEPT ![t].file = r.file,
                                          ![t].pc = "reopen_install"]
                /\ UNCHANGED <<slot_lock, handle_lock>>
           ELSE /\ slot_lock' = [slot_lock EXCEPT ![tasks[t].idx] = Release(@, t)]
                /\ handle_lock' = [handle_lock EXCEPT ![h] = Release(@, t)]
                /\ tasks' = [tasks EXCEPT ![t] =
                               Done([@ EXCEPT !.via = "reopen_failed"], ErrRes(r.err))]
                /\ UNCHANGED fs
    /\ UNCHANGED <<slots, next, vfiles, cleanup, OPEN_FILES, cfg_test, cso>>

\* a variant with a seeded fault: the position is taken from the reopened file, which is at 0
reopen_install_ResetPos(t) ==
    /\ tasks[t].pc = "reopen_install"
    /\ slots' = [slots EXCEPT ![tasks[t].idx].file = tasks[t].file]
    /\ vfiles' = [vfiles EXCEPT ![tasks[t].h].handle = tasks[t].lh,
                                ![tasks[t].h].pos = 0]
    /\ slot_lock' = [slot_lock EXCEPT ![tasks[t].idx] = Downgrade(@, t)]
    /\ handle_lock' = [handle_lock EXCEPT ![tasks[t].h] = Release(@, t)]
    /\ tasks' = [tasks EXCEPT ![t].file = NoFile, ![t].via = "reopened",
                              ![t].lh = NoHandle, ![t].pc = "io"]
    /\ UNCHANGED <<next, fs, cleanup, OPEN_FILES, cfg_test, cso>>

\* slot_guard.file.replace(file); *handle_guard = handle;
\* FileGuard { slot_guard.downgrade() }; handle_guard dropped
reopen_install(t) ==
    /\ tasks[t].pc = "reopen_install"
    /\ slots' = [slots EXCEPT ![tasks[t].idx].file = tasks[t].file]
    /\ vfiles' = [vfiles EXCEPT ![tasks[t].h].handle = tasks[t].lh]
    /\ slot_lock' = [slot_lock EXCEPT ![tasks[t].idx] = Downgrade(@, t)]
    /\ handle_lock' = [handle_lock EXCEPT ![tasks[t].h] = Release(@, t)]
    /\ tasks' = [tasks EXCEPT ![t].file = NoFile, ![t].via = "reopened",
                              ![t].lh = NoHandle, ![t].pc = "io"]
    /\ UNCHANGED <<next, fs, cleanup, OPEN_FILES, cfg_test, cso>>

(***************************************************************************)
(* The operations on the locked file: the body of with_file!, and what     *)
(* the caller does with the result.                                        *)
(***************************************************************************)
\* read_at and write_at may transfer fewer bytes than asked for: one byte
Short(op) == [op EXCEPT !.buf = SubSeq(@, 1, Min(1, Len(@))), !.len = Min(1, @)]

\* FileGuard::as_ref and the syscall of the operation: [res, fs]
Syscall(f, fsys, op, pos, fault) ==
    IF f = NoFile THEN [res |-> ErrRes("panic"), fs |-> fsys]
    ELSE IF fault = "zero" THEN [res |-> OkRes(0, <<>>), fs |-> fsys]
    ELSE IF fault \notin {"none", "short"} THEN [res |-> ErrRes(fault), fs |-> fsys]
    ELSE LET o == IF fault = "short" THEN Short(op) ELSE op
         IN  CASE o.kind \in {"read_at", "read_exact_at"} ->
                    [res |-> SysReadAt(f, fsys, o.len, o.off), fs |-> fsys]
               [] o.kind = "read_to_end" -> [res |-> SysReadAt(f, fsys, o.len, pos), fs |-> fsys]
               [] o.kind \in {"write_at", "write_all_at"} ->
                    SysWriteAt(f, fsys, o.buf, o.off)
               [] o.kind = "write_all" -> SysWriteAt(f, fsys, o.buf, pos)
               [] o.kind = "seek_end" -> [res |-> SysSeekEnd(f, fsys, o.off), fs |-> fsys]
               [] o.kind = "metadata" -> [res |-> SysMetadata(f, fsys), fs |-> fsys]
               [] OTHER -> [res |-> SysSyncAll(f, fsys), fs |-> fsys]

\* a variant with a seeded fault: the position is assigned before the result is looked at
PosAfter_Unchecked(op, pos, r) ==
    IF op.kind = "seek_end" THEN (IF r.ok THEN r.n ELSE 0)
    ELSE IF r.ok /\ op.kind \in {"write_all", "read_to_end"} THEN pos + r.n
    ELSE pos

\* a variant with a seeded fault: a write counts the whole buffer as written
PosAfter_WholeBuf(op, pos, r) ==
    IF ~r.ok THEN pos
    ELSE IF op.kind = "seek_end" THEN r.n
    ELSE IF op.kind = "write_all" THEN pos + Len(op.buf)
    ELSE IF op.kind = "read_to_end" THEN pos + r.n
    ELSE pos

\* self.pos after the operation returned r
PosAfter(op, pos, r) ==
    IF ~r.ok THEN pos
    ELSE IF op.kind = "seek_end" THEN r.n
    ELSE IF op.kind \in {"write_all", "read_to_end"} THEN pos + r.n
    ELSE pos

\* the loops of write_all and read_to_end go round again
Again(op, r) ==
    \/ op.kind \in {"write_all", "read_to_end", "read_exact_at", "write_all_at"}
          /\ r.err = "EINTR"
    \/ op.kind \in {"write_all", "write_all_at"} /\ r.ok /\ r.n > 0 /\ r.n < Len(op.buf)
    \/ op.kind = "read_exact_at" /\ r.ok /\ r.n > 0 /\ r.n < op.len
    \/ op.kind = "read_to_end" /\ r.ok /\ r.n > 0

\* what the operation returns when its loop ends with r
Returned(op, r, acc) ==
    IF op.kind \in {"write_all", "write_all_at"} /\ r.ok
    THEN IF r.n = 0 THEN ErrRes("WriteZero") ELSE OkRes(0, <<>>)
    ELSE IF op.kind = "read_exact_at" /\ r.ok
    THEN IF r.n = 0 THEN ErrRes("UnexpectedEof")
         ELSE OkRes(Len(acc) + r.n, acc \o r.data)
    ELSE IF op.kind = "read_to_end" /\ r.ok
    THEN OkRes(Len(acc), acc)
    ELSE r

\* a variant with a seeded fault: the next round starts at the same offset
OffAfter_Same(op, r) == op.off

\* the bytes the round has moved: read into the buffer, or written from it
Moved(op, r) ==
    IF op.kind = "write_all_at" /\ r.ok THEN SubSeq(op.buf, 1, r.n) ELSE r.data

\* read_exact_at, write_all_at: offset += n as u64
OffAfter(op, r) ==
    IF op.kind \in {"read_exact_at", "write_all_at"} /\ r.ok THEN op.off + r.n
    ELSE op.off

\* read_exact_at: buf = &mut buf[n..]
LenAfter(op, r) ==
    IF op.kind = "read_exact_at" /\ r.ok THEN op.len - r.n ELSE op.len

\* the syscall under the FileGuard, then the guard is dropped
io(t, fault) ==
    /\ tasks[t].pc = "io"
    /\ LET h == tasks[t].h
           op == tasks[t].op
           s == Syscall(slots[tasks[t].idx].file, fs, op, vfiles[h].pos, fault)
           r == s.res
       IN  /\ fs' = s.fs
           /\ slot_lock' = [slot_lock EXCEPT ![tasks[t].idx] = Release(@, t)]
           /\ vfiles' = [vfiles EXCEPT ![h].pos = PosAfter(op, @, r)]
           /\ tasks' =
                IF Again(op, r)
                THEN [tasks EXCEPT ![t].pc = "lf_handle_read",
                                   ![t].acc = @ \o Moved(op, r),
                                   ![t].op.buf = IF r.ok THEN SubSeq(@, r.n + 1, Len(@))
                                                 ELSE @,
                                   ![t].op.off = OffAfter(op, r),
                                   ![t].op.len = LenAfter(op, r)]
                ELSE [tasks EXCEPT ![t] = Done(@, Returned(op, r, tasks[t].acc))]
    /\ UNCHANGED <<slots, next, handle_lock, cleanup, OPEN_FILES, cfg_test, cso>>

\* the operation has returned to its caller
Return(t) ==
    /\ tasks[t].pc = "done"
    /\ tasks' = [tasks EXCEPT ![t] = IdleTask]
    /\ UNCHANGED <<slots, slot_lock, next, vfiles, handle_lock, fs, cleanup, OPEN_FILES, cfg_test, cso>>

(***************************************************************************)
(* VirtualFile::seek.  SeekFrom::End goes through lock_file (StartOp with  *)
(* kind seek_end); Start and Current are computed from self.pos.           *)
(***************************************************************************)
\* a variant with a seeded fault: Current is taken from the start of the file
SeekPos_FromStart(pos, whence, offset) ==
    IF offset < 0 THEN [ok |-> FALSE, pos |-> pos]
    ELSE [ok |-> TRUE, pos |-> offset]

\* [ok, pos]: the result of seek(Start(offset)) or seek(Current(offset))
SeekPos(pos, whence, offset) ==
    IF whence = "seek_start" THEN [ok |-> TRUE, pos |-> offset]
    ELSE LET p == pos + offset
         IN  IF p < 0 THEN [ok |-> FALSE, pos |-> pos]
             ELSE IF p > U64Max THEN [ok |-> FALSE, pos |-> pos]
             ELSE [ok |-> TRUE, pos |-> p]

seek(t, h, whence, offset) ==
    /\ tasks[t].pc = "idle"
    /\ vfiles[h].state = "live"
    /\ ~InUse(h)
    /\ LET r == SeekPos(vfiles[h].pos, whence, offset)
       IN  /\ vfiles' = [vfiles EXCEPT ![h].pos = r.pos]
           /\ tasks' = [tasks EXCEPT ![t] =
                          [IdleTask EXCEPT !.pc = "done", !.h = h,
                             !.op = [NoOp EXCEPT !.kind = whence, !.off = offset],
                             !.res = IF r.ok THEN OkRes(r.pos, <<>>)
                                     ELSE ErrRes("InvalidInput")]]
    /\ UNCHANGED <<slots, slot_lock, next, handle_lock, fs, cleanup, OPEN_FILES, cfg_test, cso>>

(***************************************************************************)
(* Drop for VirtualFile.                                                   *)
(***************************************************************************)
\* a VirtualFile that is gone
Dropped == [NoVFile EXCEPT !.state = "dropped"]

\* a variant with a seeded fault: the cleanup also moves the tag on
clean_slot_BumpTag(s, tag) ==
    IF s.tag = tag
    THEN [s EXCEPT !.recently_used = FALSE, !.file = NoFile, !.tag = @ + 1]
    ELSE s

\* a variant with a seeded fault: the descriptor is left in the slot
clean_slot_KeepFile(s, tag) ==
    IF s.tag = tag THEN [s EXCEPT !.recently_used = FALSE] ELSE s

\* a variant with a seeded fault: the tag is not compared
clean_slot_AnyTag(s, tag) == [s EXCEPT !.recently_used = FALSE, !.file = NoFile]

\* clean_slot(slot, slot_guard, tag)
clean_slot(s, tag) ==
    IF s.tag = tag
    THEN [s EXCEPT !.recently_used = FALSE, !.file = NoFile]
    ELSE s

\* a variant with a seeded fault: the drop waits for the slot's write lock
drop_Blocking(t, h) ==
    /\ tasks[t].pc = "idle"
    /\ vfiles[h].state = "live"
    /\ ~InUse(h)
    /\ TryWriteOk(slot_lock[vfiles[h].handle.index])
    /\ slots' = [slots EXCEPT ![vfiles[h].handle.index] =
                    clean_slot(@, vfiles[h].handle.tag)]
    /\ vfiles' = [vfiles EXCEPT ![h] = Dropped]
    /\ UNCHANGED <<slot_lock, next, handle_lock, fs, tasks, cleanup, OPEN_FILES, cfg_test, cso>>

\* drop(&mut self): try_write and clean_slot, or spawn the cleanup task
drop(t, h) ==
    /\ tasks[t].pc = "idle"
    /\ vfiles[h].state = "live"
    /\ ~InUse(h)
    /\ LET i == vfiles[h].handle.index
       IN  IF TryWriteOk(slot_lock[i])
           THEN /\ slots' = [slots EXCEPT ![i] = clean_slot(@, vfiles[h].handle.tag)]
                /\ vfiles' = [vfiles EXCEPT ![h] = Dropped]
                /\ UNCHANGED cleanup
           ELSE /\ cleanup' = [cleanup EXCEPT ![h] = "spawned"]
                /\ vfiles' = [vfiles EXCEPT ![h].state = "dropped"]
                /\ UNCHANGED slots
    /\ UNCHANGED <<slot_lock, next, handle_lock, fs, tasks, OPEN_FILES, cfg_test, cso>>

\* the spawned task: slot.inner.write().await, the request
cleanup_write(h) ==
    /\ cleanup[h] = "spawned"
    /\ slot_lock' = [slot_lock EXCEPT ![vfiles[h].handle.index] =
                        RequestWrite(@, CleanupId(h))]
    /\ cleanup' = [cleanup EXCEPT ![h] = "waiting"]
    /\ UNCHANGED <<slots, next, vfiles, handle_lock, fs, tasks, OPEN_FILES, cfg_test, cso>>

\* the spawned task: clean_slot under the write guard
cleanup_run(h) ==
    /\ cleanup[h] = "waiting"
    /\ HoldsWrite(slot_lock[vfiles[h].handle.index], CleanupId(h))
    /\ slots' = [slots EXCEPT ![vfiles[h].handle.index] =
                    clean_slot(@, vfiles[h].handle.tag)]
    /\ slot_lock' = [slot_lock EXCEPT ![vfiles[h].handle.index] =
                        Release(@, CleanupId(h))]
    /\ cleanup' = [cleanup EXCEPT ![h] = "none"]
    /\ vfiles' = [vfiles EXCEPT ![h] = Dropped]
    /\ UNCHANGED <<next, handle_lock, fs, tasks, OPEN_FILES, cfg_test, cso>>

(***************************************************************************)
(* Spec: NumTasks tasks share the pool; they open VirtualFiles on files    *)
(* that exist, use them through the shared reference (&self) operations    *)
(* and drop them.  Every physical open and syscall may fail.               *)
(***************************************************************************)
ReadAt(len, off) == [NoOp EXCEPT !.kind = "read_at", !.len = len, !.off = off]
WriteAt(buf, off) == [NoOp EXCEPT !.kind = "write_at", !.buf = buf, !.off = off]
SyncAll == [NoOp EXCEPT !.kind = "sync_all"]
Metadata == [NoOp EXCEPT !.kind = "metadata"]

SharedOps == {ReadAt(1, 0), SyncAll}
SharedOptions == {OptRead}
Faults == {"none", "ENOSPC"}

\* the path the k-th VirtualFile is opened on
PathOf(h) == ((h - 1) % NumPaths) + 1

Init ==
    /\ \E n \in 1 .. MaxSlots : InitPool(n)
    /\ InitHandles
    /\ fs = [p \in Paths |-> <<p>>]

\* the steps of a task inside a call: they are driven by the executor
Running(t) ==
    \/ fv_fetch(t)
    \/ fv_swap(t)
    \/ fv_try(t)
    \/ fv_write(t)
    \/ fv_take(t)
    \/ \E fault \in Faults : open_sys(t, fault)
    \/ open_install(t)
    \/ lf_copy(t)
    \/ lf_slot_read(t)
    \/ lf_check(t)
    \/ lf_handle_write(t)
    \/ lf_recheck(t)
    \/ \E fault \in Faults : reopen_sys(t, fault)
    \/ reopen_install(t)
    \/ \E fault \in Faults : io(t, fault)
    \/ Return(t)

TaskStep(t) ==
    \/ \E o \in SharedOptions :
          Budget(MaxEvictions) /\ open_with_options(t, PathOf(FreeHandle), o)
    \/ \E h \in Handles, op \in SharedOps :
          Budget(MaxEvictions) /\ StartOp(t, h, op)
    \/ \E h \in Handles : drop(t, h)
    \/ Running(t)

CleanupStep(h) ==
    \/ cleanup_write(h)
    \/ cleanup_run(h)

Next ==
    \/ \E t \in Tasks : TaskStep(t)
    \/ \E h \in Handles : CleanupStep(h)

Spec == Init /\ [][Next]_vars

(***************************************************************************)
(* The same program under a fair executor: a task that can take a step of  *)
(* the call it is in eventually takes it, and so does a spawned cleanup.   *)
(* Callers start one kind of operation on MaxFairHandles VirtualFiles.      *)
(***************************************************************************)
FairOps == {ReadAt(1, 0)}

FairStep(t) ==
    \/ \E o \in SharedOptions :
          Budget(MaxEvictions) /\ FreeHandle <= MaxFairHandles
                                /\ open_with_options(t, PathOf(FreeHandle), o)
    \/ \E h \in Handles, op \in FairOps :
          Budget(MaxEvictions) /\ StartOp(t, h, op)
    \/ \E h \in Handles : drop(t, h)
    \/ Running(t)

NextFair ==
    \/ \E t \in Tasks : FairStep(t)
    \/ \E h \in Handles : CleanupStep(h)

Fairness ==
    /\ \A t \in Tasks : WF_vars(Running(t))
    /\ \A h \in Handles : WF_vars(CleanupStep(h))

SpecFair == Init /\ [][NextFair]_vars /\ Fairness

(***************************************************************************)
(* SpecSeq: one task uses VirtualFiles through every operation, also the   *)
(* ones that need the exclusive reference (&mut self): seek, write_all,    *)
(* read_to_end.  Files may be absent, are created, truncated, written and  *)
(* removed; no physical operation fails for a reason outside the model.    *)
(***************************************************************************)
FOOBAR == <<6, 15, 15, 2, 1, 18>>
FOOBAR_UPPER == <<38, 47, 47, 34, 33, 50>>
BAR == <<2, 1, 18>>
TmpLen == 128

SeekEnd(off) == [NoOp EXCEPT !.kind = "seek_end", !.off = off]
WriteAll(buf) == [NoOp EXCEPT !.kind = "write_all", !.buf = buf]
ReadToEnd == [NoOp EXCEPT !.kind = "read_to_end", !.len = TmpLen]

StartOffsets == {0, 1, 4, U64Max}
RelOffsets == {I64Min, -7, -5, -2, 0, 2, I64Max}

SeqOps == {ReadAt(3, 2), WriteAt(BAR, 3), Metadata, WriteAll(BAR), ReadToEnd}

\* std::fs::remove_file(path), by anyone, while no descriptor is open on it
remove_file(p) ==
    /\ fs[p] # Absent
    /\ \A i \in Slots : slots[i].file.path # p
    /\ \A t \in Tasks : tasks[t].file.path # p
    /\ fs' = [fs EXCEPT ![p] = Absent]
    /\ UNCHANGED <<slots, slot_lock, next, vfiles, handle_lock, tasks, cleanup, OPEN_FILES, cfg_test, cso>>

InitSeq ==
    /\ \E n \in 1 .. MaxSlots : InitPool(n)
    /\ InitHandles
    /\ \E c \in {Absent, FOOBAR} : fs = [p \in Paths |-> IF p = 1 THEN c ELSE Absent]

SeqStep(t) ==
    \/ \E o \in OptionSets :
          Budget(MaxEvictions) /\ open_with_options(t, 1, o)
    \/ \E h \in Handles, op \in SeqOps :
          Budget(MaxEvictions) /\ StartOp(t, h, op)
    \/ \E h \in Handles : drop(t, h)
    \/ fv_fetch(t)
    \/ fv_swap(t)
    \/ fv_try(t)
    \/ fv_take(t)
    \/ open_sys(t, "none")
    \/ open_install(t)
    \/ lf_handle_read(t)
    \/ lf_slot_read(t)
    \/ lf_check(t)
    \/ lf_handle_write(t)
    \/ lf_recheck(t)
    \/ reopen_sys(t, "none")
    \/ reopen_install(t)
    \/ io(t, "none")
    \/ Return(t)

NextSeq ==
    \/ SeqStep(1)
    \/ remove_file(1)

SpecSeq == InitSeq /\ [][NextSeq]_vars

(***************************************************************************)
(* SpecSeek: one task opens read-only VirtualFiles on files that hold      *)
(* "foobar" or "FOOBAR" and reads them to the end, which evicts the        *)
(* descriptors of the others; it seeks in the first of them (file_a of     *)
(* test_files).                                                            *)
(***************************************************************************)
InitSeek ==
    /\ \E n \in 1 .. MaxSlots : InitPool(n)
    /\ InitHandles
    /\ fs = [p \in Paths |-> IF p = 1 THEN FOOBAR ELSE FOOBAR_UPPER]

SeekStep(t) ==
    \/ Budget(MaxSeqEvictions) /\ open_with_options(t, PathOf(FreeHandle), OptRead)
    \/ \E h \in Handles : Budget(MaxSeqEvictions) /\ StartOp(t, h, ReadToEnd)
    \/ \E off \in RelOffsets : Budget(MaxSeqEvictions) /\ StartOp(t, 1, SeekEnd(off))
    \/ \E off \in StartOffsets : seek(t, 1, "seek_start", off)
    \/ \E off \in RelOffsets : seek(t, 1, "seek_current", off)
    \/ fv_fetch(t)
    \/ fv_swap(t)
    \/ fv_try(t)
    \/ fv_take(t)
    \/ open_sys(t, "none")
    \/ open_install(t)
    \/ lf_handle_read(t)
    \/ lf_slot_read(t)
    \/ lf_check(t)
    \/ lf_handle_write(t)
    \/ lf_recheck(t)
    \/ reopen_sys(t, "none")
    \/ reopen_install(t)
    \/ io(t, "none")
    \/ Return(t)

NextSeek == SeekStep(1)

SpecSeek == InitSeek /\ [][NextSeek]_vars

(***************************************************************************)
(* SpecWrite: one task creates files and writes them sequentially; a       *)
(* write_at may be short, interrupted, or fail for lack of space.          *)
(***************************************************************************)
WriteFaults == {"none", "short", "EINTR", "ENOSPC"}
WriteOptions == {OptCreate, OptReadWrite}

WriteStep(t) ==
    \/ \E o \in WriteOptions :
          Budget(MaxEvictions) /\ FreeHandle <= MaxWriteHandles
                                /\ open_with_options(t, 1, o)
    \/ Budget(MaxEvictions) /\ StartOp(t, 1, WriteAll(BAR))
    \/ \E off \in {0, 1} : seek(t, 1, "seek_start", off)
    \/ fv_fetch(t)
    \/ fv_swap(t)
    \/ fv_try(t)
    \/ fv_take(t)
    \/ open_sys(t, "none")
    \/ open_install(t)
    \/ lf_handle_read(t)
    \/ lf_slot_read(t)
    \/ lf_check(t)
    \/ lf_handle_write(t)
    \/ lf_recheck(t)
    \/ reopen_sys(t, "none")
    \/ reopen_install(t)
    \/ \E fault \in WriteFaults : io(t, fault)
    \/ Return(t)

NextWrite == WriteStep(1)

SpecWrite == InitSeq /\ [][NextWrite]_vars

(***************************************************************************)
(* SpecRound: one task creates a file through the first VirtualFile and    *)
(* writes it sequentially; the VirtualFiles it opens after that are        *)
(* read-only on the same path and are read to the end (file_a of           *)
(* test_files, written and opened again).                                  *)
(***************************************************************************)
RoundStep(t) ==
    \/ /\ Budget(MaxSeqEvictions)
       /\ vfiles[1].state = "unopened"
       /\ open_with_options(t, 1, OptCreate)
    \/ /\ Budget(MaxSeqEvictions)
       /\ vfiles[1].state = "live"
       /\ open_with_options(t, 1, OptRead)
    \/ Budget(MaxSeqEvictions) /\ StartOp(t, 1, WriteAll(BAR))
    \/ \E h \in Handles \ {1} : Budget(MaxSeqEvictions) /\ StartOp(t, h, ReadToEnd)
    \/ fv_fetch(t)
    \/ fv_swap(t)
    \/ fv_try(t)
    \/ fv_take(t)
    \/ open_sys(t, "none")
    \/ open_install(t)
    \/ lf_handle_read(t)
    \/ lf_slot_read(t)
    \/ lf_check(t)
    \/ lf_handle_write(t)
    \/ lf_recheck(t)
    \/ reopen_sys(t, "none")
    \/ reopen_install(t)
    \/ io(t, "none")
    \/ Return(t)

NextRound == RoundStep(1)

SpecRound == InitSeq /\ [][NextRound]_vars

(***************************************************************************)
(* SpecInit: the process starts with OPEN_FILES unset, in a test build or  *)
(* not; a task calls init, opens VirtualFiles and reads through them.      *)
(***************************************************************************)
InitUnset ==
    /\ slots = NewSlots(0)
    /\ slot_lock = NewLocks(0)
    /\ next = 0
    /\ OPEN_FILES = "unset"
    /\ cfg_test \in BOOLEAN
    /\ InitHandles
    /\ fs = [p \in Paths |-> <<p>>]

InitStep(t) ==
    \/ \E n \in 1 .. MaxSlots : init(t, n)
    \/ Budget(MaxEvictions) /\ open_with_options(t, PathOf(FreeHandle), OptRead)
    \/ \E h \in Handles : Budget(MaxEvictions) /\ StartOp(t, h, ReadAt(1, 0))
    \/ fv_fetch(t)
    \/ fv_swap(t)
    \/ fv_try(t)
    \/ fv_take(t)
    \/ open_sys(t, "none")
    \/ open_install(t)
    \/ lf_slot_read(t)
    \/ lf_check(t)
    \/ lf_handle_write(t)
    \/ lf_recheck(t)
    \/ reopen_sys(t, "none")
    \/ reopen_install(t)
    \/ io(t, "none")
    \/ Return(t)

NextInit == InitStep(1)

SpecInit == InitUnset /\ [][NextInit]_vars

(***************************************************************************)
(* The classification of I/O errors, and the helpers that end the process  *)
(* on them.  An error is named by its errno when it has one (it came from  *)
(* the OS) and by its ErrorKind when it was built without one.             *)
(***************************************************************************)
OsErrors == {"EIO", "EROFS", "EACCES", "ENOSPC", "EINTR", "EINVAL", "EBADF",
             "EBADFD", "ENOENT", "EEXIST", "EOVERFLOW"}
KindErrors == {"WriteZero", "Interrupted", "UnexpectedEof", "InvalidInput"}
IoErrors == OsErrors \cup KindErrors

\* e.raw_os_error().map(nix::errno::from_i32)
raw_os_error(e) == IF e \in OsErrors THEN e ELSE "None"

\* a variant with a seeded fault: a full disk ends the process too
is_fatal_io_error_NoSpace(e) ==
    raw_os_error(e) \in {"EIO", "EROFS", "EACCES", "ENOSPC"}

is_fatal_io_error(e) ==
    LET code == raw_os_error(e)
    IN  IF code = "EIO" THEN TRUE
        ELSE IF code = "EROFS" THEN TRUE
        ELSE IF code = "EACCES" THEN TRUE
        ELSE FALSE

\* std::process::abort(): no task of the process takes another step
Aborted == [t \in Tasks |-> [IdleTask EXCEPT !.pc = "aborted"]]

\* what goes into the helpers: io::Result values
IoResults == {OkRes(n, <<>>) : n \in 0 .. 1} \cup {ErrRes(e) : e \in IoErrors}

BoolRes(b) == OkRes(IF b THEN 1 ELSE 0, <<>>)

\* task t calls helper f on the result r
call(t, f, r) ==
    /\ tasks[t].pc = "idle"
    /\ tasks' = [tasks EXCEPT ![t] =
                   [IdleTask EXCEPT !.pc = "call", !.op = [NoOp EXCEPT !.kind = f],
                                    !.res = r]]
    /\ UNCHANGED <<slots, slot_lock, next, vfiles, handle_lock, fs, cleanup, OPEN_FILES, cfg_test, cso>>

\* is_fatal_io_error(&e) returns
classify(t) ==
    /\ tasks[t].pc = "call"
    /\ tasks[t].op.kind = "is_fatal_io_error"
    /\ tasks' = [tasks EXCEPT ![t].pc = "done",
                              ![t].res = BoolRes(is_fatal_io_error(tasks[t].res.err))]
    /\ UNCHANGED <<slots, slot_lock, next, vfiles, handle_lock, fs, cleanup, OPEN_FILES, cfg_test, cso>>

\* a variant with a seeded fault: every error ends the process
maybe_fatal_err_Always(t) ==
    /\ tasks[t].pc = "call"
    /\ tasks[t].op.kind = "maybe_fatal_err"
    /\ tasks' = IF ~tasks[t].res.ok
                THEN Aborted
                ELSE [tasks EXCEPT ![t].pc = "done"]
    /\ UNCHANGED <<slots, slot_lock, next, vfiles, handle_lock, fs, cleanup, OPEN_FILES, cfg_test, cso>>

\* self.maybe_fatal_err(context)
maybe_fatal_err(t) ==
    /\ tasks[t].pc = "call"
    /\ tasks[t].op.kind = "maybe_fatal_err"
    /\ tasks' = IF ~tasks[t].res.ok /\ is_fatal_io_error(tasks[t].res.err)
                THEN Aborted
                ELSE [tasks EXCEPT ![t].pc = "done"]
    /\ UNCHANGED <<slots, slot_lock, next, vfiles, handle_lock, fs, cleanup, OPEN_FILES, cfg_test, cso>>

\* a variant with a seeded fault: only the fatal errors end the process
fatal_err_Classified(t) ==
    /\ tasks[t].pc = "call"
    /\ tasks[t].op.kind = "fatal_err"
    /\ tasks' = IF ~tasks[t].res.ok /\ is_fatal_io_error(tasks[t].res.err)
                THEN Aborted
                ELSE [tasks EXCEPT ![t].pc = "done"]
    /\ UNCHANGED <<slots, slot_lock, next, vfiles, handle_lock, fs, cleanup, OPEN_FILES, cfg_test, cso>>

\* self.fatal_err(context)
fatal_err(t) ==
    /\ tasks[t].pc = "call"
    /\ tasks[t].op.kind = "fatal_err"
    /\ tasks' = IF tasks[t].res.ok
                THEN [tasks EXCEPT ![t].pc = "done"]
                ELSE Aborted
    /\ UNCHANGED <<slots, slot_lock, next, vfiles, handle_lock, fs, cleanup, OPEN_FILES, cfg_test, cso>>

(***************************************************************************)
(* SpecFatal: the tasks call the helpers on every kind of result.          *)
(***************************************************************************)
FatalStep(t) ==
    \/ \E e \in IoErrors : call(t, "is_fatal_io_error", ErrRes(e))
    \/ \E r \in IoResults : call(t, "maybe_fatal_err", r)
    \/ \E r \in IoResults : call(t, "fatal_err", r)
    \/ classify(t)
    \/ maybe_fatal_err(t)
    \/ fatal_err(t)
    \/ Return(t)

NextFatal == \E t \in Tasks : FatalStep(t)

SpecFatal == Init /\ [][NextFatal]_vars

(***************************************************************************)
(* VirtualFile::crashsafe_overwrite.  The call is a sequence of operations *)
(* of its task; cso[t].stage is the operation the call is at.              *)
(***************************************************************************)
\* the directory the files are in; it is a root, which has no parent
ParentDir == 0
NoParent == -1

\* final_path.parent()
parent(p) == IF p = ParentDir THEN NoParent ELSE ParentDir

\* A file that has lost its name (it was removed, or another file was renamed
\* over it) lives on while a descriptor is open on it: the model keeps
\* it under a name made of the VirtualFile that owns the descriptor.
Unlinked(h) == 0 - 1 - h
FsPaths == {ParentDir} \cup Paths \cup {Unlinked(h) : h \in Handles}

\* the VirtualFiles with a descriptor on the file at path p, in a slot or
\* just opened
OpenOn(p) ==
    {slots[i].file.owner : i \in {j \in Slots : slots[j].file # NoFile /\ slots[j].file.path = p}}
    \cup {tasks[t].file.owner : t \in {u \in Tasks : tasks[u].file # NoFile /\ tasks[u].file.path = p}}

\* descriptor f when the file at path p has lost its name
Unlink(f, p) ==
    IF f # NoFile /\ f.path = p THEN [f EXCEPT !.path = Unlinked(f.owner)] ELSE f

\* descriptor f when the file at from has been renamed to to: a descriptor
\* stays on its file
Follow(f, from, to) ==
    IF f # NoFile /\ f.path = from THEN [f EXCEPT !.path = to] ELSE Unlink(f, to)

\* std::fs::remove_file(path).or_else(fs_ext::ignore_not_found), with the
\* file open in the VirtualFiles open: [res, fs]
RemoveIgnoreNotFound(fsys, p, open, fault) ==
    IF fault # "none" THEN [res |-> ErrRes(fault), fs |-> fsys]
    ELSE [res |-> OkRes(0, <<>>),
          fs |-> [q \in DOMAIN fsys |->
                    IF q = p THEN Absent
                    ELSE IF \E h \in open : q = Unlinked(h) THEN fsys[p]
                    ELSE fsys[q]]]

\* a variant with a seeded fault: the file is copied to its new name
Rename_Copy(fsys, from, to, open, fault) ==
    IF fault # "none" THEN [res |-> ErrRes(fault), fs |-> fsys]
    ELSE IF fsys[from] = Absent THEN [res |-> ErrRes("ENOENT"), fs |-> fsys]
    ELSE [res |-> OkRes(0, <<>>), fs |-> [fsys EXCEPT ![to] = fsys[from]]]

\* std::fs::rename(from, to), of a file to another name, with the file at
\* to open in the VirtualFiles open: [res, fs]
Rename(fsys, from, to, open, fault) ==
    IF fault # "none" THEN [res |-> ErrRes(fault), fs |-> fsys]
    ELSE IF fsys[from] = Absent THEN [res |-> ErrRes("ENOENT"), fs |-> fsys]
    ELSE [res |-> OkRes(0, <<>>),
          fs |-> [p \in DOMAIN fsys |->
                    IF p = to THEN fsys[from]
                    ELSE IF p = from THEN Absent
                    ELSE IF \E h \in open : p = Unlinked(h) THEN fsys[to]
                    ELSE fsys[p]]]

\* the call, up to its first await: final_path.parent(), remove_file(tmp_path)
crashsafe_overwrite(t, final_path, tmp_path, content, fault) ==
    /\ tasks[t].pc = "idle"
    /\ cso[t].stage = "none"
    /\ LET frame == [NoFrame EXCEPT !.final = final_path, !.tmp = tmp_path,
                                    !.content = content, !.old = fs[final_path],
                                    !.n = cso[t].n + 1]
           r == RemoveIgnoreNotFound(fs, tmp_path, OpenOn(tmp_path), fault)
       IN  IF parent(final_path) = NoParent
           THEN /\ cso' = [cso EXCEPT ![t] = [frame EXCEPT !.stage = "returned",
                                                           !.res = ErrRes("EINVAL")]]
                /\ UNCHANGED <<fs, slots, tasks>>
           ELSE IF r.res.ok
           THEN /\ fs' = r.fs
                /\ slots' = [i \in Slots |-> [slots[i] EXCEPT !.file = Unlink(@, tmp_path)]]
                /\ tasks' = [u \in Tasks |-> [tasks[u] EXCEPT !.file = Unlink(@, tmp_path)]]
                /\ cso' = [cso EXCEPT ![t] = [frame EXCEPT !.stage = "open_tmp"]]
           ELSE /\ cso' = [cso EXCEPT ![t] = [frame EXCEPT !.stage = "returned",
                                                           !.res = r.res]]
                /\ UNCHANGED <<fs, slots, tasks>>
    /\ UNCHANGED <<slot_lock, next, vfiles, handle_lock, cleanup, OPEN_FILES, cfg_test>>

\* the call makes the operation it is at: open_with_options(tmp_path, write,
\* create_new), file.write_all(content), file.sync_all(), drop(file),
\* open_with_options(final_path_parent, read), final_parent_dirfd.sync_all(),
\* and final_parent_dirfd goes out of scope
cso_call(t) ==
    \/ cso[t].stage = "open_tmp" /\ open_with_options(t, cso[t].tmp, OptCreateNew)
    \/ cso[t].stage = "write_all" /\ StartOp(t, cso[t].h, WriteAll(cso[t].content))
    \/ cso[t].stage \in {"sync_all", "sync_dir"} /\ StartOp(t, cso[t].h, SyncAll)
    \/ cso[t].stage \in {"drop", "drop_dir"} /\ drop(t, cso[t].h)
    \/ cso[t].stage = "open_dir" /\ open_with_options(t, parent(cso[t].final), OptRead)

\* a variant with a seeded fault: the file is not synced before it is renamed
cso_next_NoSync(t) ==
    /\ tasks[t].pc = "done"
    /\ cso[t].stage \in {"open_tmp", "write_all", "sync_all", "open_dir", "sync_dir"}
    /\ LET f == cso[t]
           r == tasks[t].res
       IN  cso' = [cso EXCEPT ![t] =
              CASE f.stage = "open_tmp" ->
                     IF r.ok THEN [f EXCEPT !.stage = "write_all", !.h = tasks[t].h]
                     ELSE [f EXCEPT !.stage = "returned", !.res = r]
                [] f.stage = "write_all" ->
                     IF r.ok THEN [f EXCEPT !.stage = "drop"]
                     ELSE [f EXCEPT !.stage = "drop", !.res = r]
                [] f.stage = "sync_all" ->
                     IF r.ok THEN [f EXCEPT !.stage = "drop", !.synced = Len(fs[f.tmp])]
                     ELSE [f EXCEPT !.stage = "drop", !.res = r]
                [] f.stage = "open_dir" ->
                     IF r.ok THEN [f EXCEPT !.stage = "sync_dir", !.h = tasks[t].h]
                     ELSE [f EXCEPT !.stage = "returned", !.res = r]
                [] OTHER ->
                     IF r.ok THEN [f EXCEPT !.stage = "drop_dir", !.dir_synced = TRUE]
                     ELSE [f EXCEPT !.stage = "drop_dir", !.res = r]]
    /\ tasks' = [tasks EXCEPT ![t] = IdleTask]
    /\ UNCHANGED <<slots, slot_lock, next, vfiles, handle_lock, fs, cleanup, OPEN_FILES, cfg_test>>

\* the operation has returned to the call: `?` returns its error, after a
\* drop of the file when the call holds one; else the call goes on to its
\* next operation.  A sync_all that returned Ok has put the file on the disk.
cso_next(t) ==
    /\ tasks[t].pc = "done"
    /\ cso[t].stage \in {"open_tmp", "write_all", "sync_all", "open_dir", "sync_dir"}
    /\ LET f == cso[t]
           r == tasks[t].res
       IN  cso' = [cso EXCEPT ![t] =
              CASE f.stage = "open_tmp" ->
                     IF r.ok THEN [f EXCEPT !.stage = "write_all", !.h = tasks[t].h]
                     ELSE [f EXCEPT !.stage = "returned", !.res = r]
                [] f.stage = "write_all" ->
                     IF r.ok THEN [f EXCEPT !.stage = "sync_all"]
                     ELSE [f EXCEPT !.stage = "drop", !.res = r]
                [] f.stage = "sync_all" ->
                     IF r.ok THEN [f EXCEPT !.stage = "drop", !.synced = Len(fs[f.tmp])]
                     ELSE [f EXCEPT !.stage = "drop", !.res = r]
                [] f.stage = "open_dir" ->
                     IF r.ok THEN [f EXCEPT !.stage = "sync_dir", !.h = tasks[t].h]
                     ELSE [f EXCEPT !.stage = "returned", !.res = r]
                [] OTHER ->
                     IF r.ok THEN [f EXCEPT !.stage = "drop_dir", !.dir_synced = TRUE]
                     ELSE [f EXCEPT !.stage = "drop_dir", !.res = r]]
    /\ tasks' = [tasks EXCEPT ![t] = IdleTask]
    /\ UNCHANGED <<slots, slot_lock, next, vfiles, handle_lock, fs, cleanup, OPEN_FILES, cfg_test>>

\* a variant with a seeded fault: an error of the rename that is classified as fatal ends the process
cso_rename_Fatal(t, fault) ==
    /\ tasks[t].pc = "idle"
    /\ cso[t].stage = "drop"
    /\ cso[t].res.ok
    /\ vfiles[cso[t].h].state = "dropped"
    /\ LET f == cso[t]
           r == Rename(fs, f.tmp, f.final, OpenOn(f.final), fault)
           moved(d) == IF r.res.ok THEN Follow(d, f.tmp, f.final) ELSE d
       IN  /\ fs' = r.fs
           /\ slots' = [i \in Slots |-> [slots[i] EXCEPT !.file = moved(@)]]
           /\ tasks' = IF ~r.res.ok /\ is_fatal_io_error(r.res.err) THEN Aborted
                       ELSE [u \in Tasks |-> [tasks[u] EXCEPT !.file = moved(@)]]
           /\ cso' = [cso EXCEPT ![t] =
                        IF r.res.ok
                        THEN [f EXCEPT !.stage = "open_dir", !.renamed = TRUE, !.h = 0]
                        ELSE [f EXCEPT !.stage = "returned", !.res = r.res, !.h = 0]]
    /\ UNCHANGED <<slot_lock, next, vfiles, handle_lock, cleanup, OPEN_FILES, cfg_test>>

\* a variant with a seeded fault: the rename does not wait for drop(file)
cso_rename_BeforeDrop(t, fault) ==
    /\ tasks[t].pc = "idle"
    /\ cso[t].stage = "drop"
    /\ cso[t].res.ok
    /\ LET f == cso[t]
           r == Rename(fs, f.tmp, f.final, OpenOn(f.final), fault)
           moved(d) == IF r.res.ok THEN Follow(d, f.tmp, f.final) ELSE d
       IN  /\ fs' = r.fs
           /\ slots' = [i \in Slots |-> [slots[i] EXCEPT !.file = moved(@)]]
           /\ tasks' = [u \in Tasks |-> [tasks[u] EXCEPT !.file = moved(@)]]
           /\ cso' = [cso EXCEPT ![t] =
                        IF r.res.ok
                        THEN [f EXCEPT !.stage = "open_dir", !.renamed = TRUE, !.h = 0]
                        ELSE [f EXCEPT !.stage = "returned", !.res = r.res, !.h = 0]]
    /\ UNCHANGED <<slot_lock, next, vfiles, handle_lock, cleanup, OPEN_FILES, cfg_test>>

\* std::fs::rename(tmp_path, final_path)?, after drop(file)
cso_rename(t, fault) ==
    /\ tasks[t].pc = "idle"
    /\ cso[t].stage = "drop"
    /\ cso[t].res.ok
    /\ vfiles[cso[t].h].state = "dropped"
    /\ LET f == cso[t]
           r == Rename(fs, f.tmp, f.final, OpenOn(f.final), fault)
           moved(d) == IF r.res.ok THEN Follow(d, f.tmp, f.final) ELSE d
       IN  /\ fs' = r.fs
           /\ slots' = [i \in Slots |-> [slots[i] EXCEPT !.file = moved(@)]]
           /\ tasks' = [u \in Tasks |-> [tasks[u] EXCEPT !.file = moved(@)]]
           /\ cso' = [cso EXCEPT ![t] =
                        IF r.res.ok
                        THEN [f EXCEPT !.stage = "open_dir", !.renamed = TRUE, !.h = 0]
                        ELSE [f EXCEPT !.stage = "returned", !.res = r.res, !.h = 0]]
    /\ UNCHANGED <<slot_lock, next, vfiles, handle_lock, cleanup, OPEN_FILES, cfg_test>>

\* the call returns after the drop of its VirtualFile: the error of
\* write_all or sync_all, or what final_parent_dirfd.sync_all() returned
cso_return(t) ==
    /\ tasks[t].pc = "idle"
    /\ \/ cso[t].stage = "drop" /\ ~cso[t].res.ok
       \/ cso[t].stage = "drop_dir"
    /\ vfiles[cso[t].h].state = "dropped"
    /\ cso' = [cso EXCEPT ![t].stage = "returned", ![t].h = 0]
    /\ UNCHANGED <<slots, slot_lock, next, vfiles, handle_lock, fs, tasks, cleanup, OPEN_FILES, cfg_test>>

\* the caller has the result and goes on; the frame of the call is gone
cso_done(t) ==
    /\ cso[t].stage = "returned"
    /\ cso' = [cso EXCEPT ![t] = [NoFrame EXCEPT !.n = cso[t].n, !.res = cso[t].res]]
    /\ UNCHANGED <<slots, slot_lock, next, vfiles, handle_lock, fs, tasks, cleanup, OPEN_FILES, cfg_test>>

\* the memory of a dropped VirtualFile is taken for the next one
reuse(h) ==
    /\ vfiles[h].state = "dropped"
    /\ cleanup[h] = "none"
    /\ \A t \in Tasks : cso[t].h # h
    /\ vfiles' = [vfiles EXCEPT ![h] = NoVFile]
    /\ UNCHANGED <<slots, slot_lock, next, handle_lock, fs, tasks, cleanup, OPEN_FILES, cfg_test, cso>>

\* the contents a crash may leave of a file that holds c, of which the first
\* n bytes are on the disk
AfterCrash(c, n) == IF c = Absent THEN {} ELSE {SubSeq(c, 1, k) : k \in n .. Len(c)}

\* the process dies inside the call or at its return, and the machine with
\* it: what was not synced may be lost.  final_path is the old file until the
\* rename is done, and may still be it until the directory is synced; the
\* file written at tmp_path has at least its synced bytes.
crash(t) ==
    /\ cso[t].stage \notin {"none", "crashed"}
    /\ LET f == cso[t]
           new == AfterCrash(IF f.renamed THEN fs[f.final] ELSE fs[f.tmp], f.synced)
       IN  \E c_final \in (IF ~f.renamed THEN {f.old}
                           ELSE IF f.dir_synced THEN new
                           ELSE new \cup {f.old}),
              c_tmp \in (IF f.renamed /\ f.dir_synced THEN {Absent}
                         ELSE new \cup {Absent}) :
              fs' = [p \in DOMAIN fs |-> IF p = f.final THEN c_final
                                         ELSE IF p = f.tmp THEN c_tmp
                                         ELSE fs[p]]
    /\ tasks' = Aborted
    /\ cso' = [cso EXCEPT ![t].stage = "crashed"]
    /\ UNCHANGED <<slots, slot_lock, next, vfiles, handle_lock, cleanup, OPEN_FILES, cfg_test>>

(***************************************************************************)
(* SpecOverwrite: one task calls crashsafe_overwrite, a second time when   *)
(* the first call returned Ok, as test_atomic_overwrite_basic does; there  *)
(* may be a file at final_path and a stale one at tmp_path, as in          *)
(* test_atomic_overwrite_preexisting_tmp.  Syscalls fail and writes are    *)
(* short, and the process may crash at every step.                         *)
(***************************************************************************)
FOO == <<6, 15, 15>>
JUNK == <<10, 21, 14, 11>>
MaxOverwrites == 2

OverwriteFaults == {"none", "ENOSPC"}

InitOverwrite ==
    /\ \E n \in 1 .. MaxSlots : InitPool(n)
    /\ InitHandles
    /\ \E c \in {Absent, FOOBAR}, j \in {Absent, JUNK} :
          fs = [p \in FsPaths |->
                   IF p = ParentDir THEN <<>> ELSE IF p = 1 THEN c
                   ELSE IF p = 2 THEN j ELSE Absent]

OverwriteStep(t) ==
    \/ \E final_path \in {ParentDir, 1}, content \in {FOO, BAR}, fault \in OverwriteFaults :
          /\ cso[t].res.ok
          /\ cso[t].n < MaxOverwrites
          /\ crashsafe_overwrite(t, final_path, 2, content, fault)
    \/ cso_call(t)
    \/ fv_fetch(t)
    \/ fv_swap(t)
    \/ fv_try(t)
    \/ fv_take(t)
    \/ \E fault \in OverwriteFaults : open_sys(t, fault)
    \/ open_install(t)
    \/ lf_handle_read(t)
    \/ lf_slot_read(t)
    \/ lf_check(t)
    \/ \E fault \in WriteFaults : io(t, fault)
    \/ cso_next(t)
    \/ \E fault \in OverwriteFaults : cso_rename(t, fault)
    \/ cso_return(t)
    \/ cso_done(t)
    \/ crash(t)

NextOverwrite ==
    \/ OverwriteStep(1)
    \/ \E h \in Handles : reuse(h)

SpecOverwrite == InitOverwrite /\ [][NextOverwrite]_vars

(***************************************************************************)
(* SpecErr: one task uses VirtualFiles on a file and then calls            *)
(* crashsafe_overwrite; every physical syscall may fail with an error      *)
(* that is classified as fatal or with ENOSPC.  The caller may pass the    *)
(* result of an operation to maybe_fatal_err or fatal_err.                 *)
(***************************************************************************)
MaxErrHandles == 2

ErrFaults == {"none", "EIO", "EROFS", "EACCES", "ENOSPC"}
ErrOps == {ReadAt(1, 0), WriteAt(BAR, 0), SyncAll, Metadata, SeekEnd(0)}
Helpers == {"maybe_fatal_err", "fatal_err"}

\* the caller passes the result of the operation to helper f:
\* op(..).await.maybe_fatal_err(context)
pass(t, f) ==
    /\ tasks[t].pc = "done"
    /\ tasks[t].op.kind \notin Helpers
    /\ tasks' = [tasks EXCEPT ![t] =
                   [IdleTask EXCEPT !.pc = "call", !.op = [NoOp EXCEPT !.kind = f],
                                    !.res = tasks[t].res]]
    /\ UNCHANGED <<slots, slot_lock, next, vfiles, handle_lock, fs, cleanup, OPEN_FILES, cfg_test, cso>>

InitErr ==
    /\ \E n \in 1 .. MaxSlots : InitPool(n)
    /\ InitHandles
    /\ fs = [p \in FsPaths |->
                IF p = ParentDir THEN <<>> ELSE IF p = 1 THEN FOOBAR ELSE Absent]

ErrStep(t) ==
    \/ /\ cso[t].stage = "none"
       /\ cso[t].n = 0
       /\ Budget(MaxEvictions)
       /\ \E h \in 1 .. MaxErrHandles : vfiles[h].state = "unopened"
       /\ open_with_options(t, 1, OptReadWrite)
    \/ \E h \in Handles, op \in ErrOps :
          cso[t].stage = "none" /\ cso[t].n = 0 /\ Budget(MaxEvictions) /\ StartOp(t, h, op)
    \/ \E h \in Handles : cso[t].stage = "none" /\ drop(t, h)
    \/ \E fault \in ErrFaults :
          /\ cso[t].n = 0
          /\ \A h \in Handles : vfiles[h].state # "live"
          /\ crashsafe_overwrite(t, 1, 2, BAR, fault)
    \/ cso_call(t)
    \/ cso_next(t)
    \/ \E fault \in ErrFaults : cso_rename(t, fault)
    \/ cso_return(t)
    \/ cso_done(t)
    \/ fv_fetch(t)
    \/ fv_swap(t)
    \/ fv_try(t)
    \/ fv_take(t)
    \/ \E fault \in ErrFaults : open_sys(t, fault)
    \/ open_install(t)
    \/ lf_slot_read(t)
    \/ lf_check(t)
    \/ lf_handle_write(t)
    \/ lf_recheck(t)
    \/ \E fault \in ErrFaults : reopen_sys(t, fault)
    \/ reopen_install(t)
    \/ \E fault \in ErrFaults : io(t, fault)
    \/ \E f \in Helpers : cso[t].stage = "none" /\ pass(t, f)
    \/ \E f \in Helpers : cso[t].stage = "returned" /\ call(t, f, cso[t].res)
    \/ maybe_fatal_err(t)
    \/ fatal_err(t)
    \/ cso[t].stage \in {"none", "returned"} /\ Return(t)

NextErr ==
    \/ ErrStep(1)
    \/ \E h \in Handles : reuse(h)

SpecErr == InitErr /\ [][NextErr]_vars

(***************************************************************************)
(* SpecRace: two tasks call crashsafe_overwrite at the same time, with the *)
(* same final_path and the same tmp_path and each with its own content.    *)
(***************************************************************************)
ContentOf(t) == IF t = 1 THEN FOOBAR ELSE BAR

InitRace ==
    /\ InitPool(1)
    /\ InitHandles
    /\ fs = [p \in FsPaths |->
                IF p = ParentDir THEN <<>> ELSE IF p = 1 THEN FOOBAR_UPPER ELSE Absent]

RaceStep(t) ==
    \/ cso[t].n = 0 /\ crashsafe_overwrite(t, 1, 2, ContentOf(t), "none")
    \/ Budget(MaxSeqEvictions) /\ cso_call(t)
    \/ cso_next(t)
    \/ cso_rename(t, "none")
    \/ cso_return(t)
    \/ fv_fetch(t)
    \/ fv_swap(t)
    \/ fv_try(t)
    \/ fv_write(t)
    \/ fv_take(t)
    \/ open_sys(t, "none")
    \/ open_install(t)
    \/ lf_slot_read(t)
    \/ lf_check(t)
    \/ lf_handle_write(t)
    \/ lf_recheck(t)
    \/ reopen_sys(t, "none")
    \/ reopen_install(t)
    \/ io(t, "none")

\* the memory of a dropped VirtualFile is free at once
NextRace ==
    \/ \E t \in Tasks : (\A h \in Handles : ~ENABLED reuse(h)) /\ RaceStep(t)
    \/ \E h \in Handles : CleanupStep(h)
    \/ \E h \in Handles : reuse(h)

SpecRace == InitRace /\ [][NextRace]_vars

(***************************************************************************)
(* SpecAt: file_b of test_files.  Task 1 opens VirtualFiles on one path,   *)
(* for reading and writing or for reading, and calls write_all_at and      *)
(* read_exact_at; the syscalls transfer everything or one byte, are        *)
(* interrupted, fail, or write nothing.  Task 2 opens VirtualFiles on      *)
(* another path, which evicts the descriptors of task 1 between the        *)
(* rounds of its loops.                                                     *)
(***************************************************************************)
ReadExactAt(len, off) == [NoOp EXCEPT !.kind = "read_exact_at", !.len = len, !.off = off]
WriteAllAt(buf, off) == [NoOp EXCEPT !.kind = "write_all_at", !.buf = buf, !.off = off]

AtOps == {WriteAllAt(BAR, 3), WriteAllAt(FOO, 0), ReadExactAt(3, 2), ReadExactAt(3, 5)}
AtFaults == {"none", "short", "EINTR", "ENOSPC", "zero"}
AtOptions == {OptReadWrite, OptRead}

AtStep(t) ==
    \/ \E o \in AtOptions :
          /\ Budget(MaxEvictions) /\ vfiles[1].state = "unopened"
          /\ open_with_options(t, 1, o)
    \/ \E op \in AtOps : Budget(MaxEvictions) /\ StartOp(t, 1, op)
    \/ \E fault \in AtFaults :
          /\ fault = "zero" => tasks[t].op.kind = "write_all_at"
          /\ io(t, fault)

EvictStep(t) ==
    /\ Budget(MaxEvictions) /\ vfiles[1].state = "live"
    /\ open_with_options(t, 2, OptRead)

LockFileStep(t) ==
    \/ fv_fetch(t)
    \/ fv_swap(t)
    \/ fv_try(t)
    \/ fv_write(t)
    \/ fv_take(t)
    \/ open_sys(t, "none")
    \/ open_install(t)
    \/ lf_handle_read(t)
    \/ lf_slot_read(t)
    \/ lf_check(t)
    \/ lf_handle_write(t)
    \/ lf_recheck(t)
    \/ reopen_sys(t, "none")
    \/ reopen_install(t)
    \/ Return(t)

InitAt ==
    /\ \E n \in 1 .. MaxSlots : InitPool(n)
    /\ InitHandles
    /\ \E c \in {Absent, FOOBAR} : fs = [p \in Paths |-> IF p = 1 THEN c ELSE <<p>>]

NextAt ==
    \/ AtStep(1)
    \/ EvictStep(2)
    \/ \E t \in Tasks : LockFileStep(t)

SpecAt == InitAt /\ [][NextAt]_vars

(***************************************************************************)
(* SpecClock: the clock arm.  The pool has 1 .. MaxClockSlots slots and has *)
(* served k rounds of open and drop before the run: round j took slot      *)
(* j % n, so the arm stands at k, the slots are empty with their flags     *)
(* clear and their tags count the rounds.  Two tasks open VirtualFiles and  *)
(* drop them.                                                              *)
(***************************************************************************)
WarmSlots(n, k) ==
    [i \in 0 .. (n - 1) |->
        [EmptySlot EXCEPT !.tag = Cardinality({j \in 0 .. (k - 1) : j % n = i})]]

InitClock ==
    /\ \E n \in 1 .. MaxClockSlots, k \in 0 .. (UsizeModulus - 1) :
          /\ slots = WarmSlots(n, k)
          /\ slot_lock = NewLocks(n)
          /\ next = k
    /\ OPEN_FILES = "set"
    /\ cfg_test = FALSE
    /\ InitHandles
    /\ fs = [p \in Paths |-> <<p>>]

ClockStep(t) ==
    \/ /\ \E h \in Handles : vfiles[h].state = "unopened"
       /\ open_with_options(t, PathOf(FreeHandle), OptRead)
    \/ \E h \in Handles : drop(t, h)
    \/ fv_fetch(t)
    \/ fv_swap(t)
    \/ fv_try(t)
    \/ fv_write(t)
    \/ fv_take(t)
    \/ open_sys(t, "none")
    \/ open_install(t)
    \/ Return(t)

NextClock ==
    \/ \E t \in Tasks : ClockStep(t)
    \/ \E h \in Handles : CleanupStep(h)

SpecClock == InitClock /\ [][NextClock]_vars

(***************************************************************************)
(* SpecCapacity: as SpecInit, and init is also called with the capacity 0. *)
(***************************************************************************)
NextCapacity == InitStep(1) \/ init(1, 0)

SpecCapacity == InitUnset /\ [][NextCapacity]_vars

(***************************************************************************)
(* find_victim_slot with one caller and with two: the program runs with    *)
(* every task started, or with task 1 alone (the others are never          *)
(* started).  The caller that is alone opens every VirtualFile.            *)
(***************************************************************************)
OffTask == [IdleTask EXCEPT !.pc = "off"]

\* task t is the only task of the program
Alone(t) == \A u \in Tasks \ {t} : tasks[u].pc = "off"

InitVictim ==
    /\ \E n \in 1 .. MaxSlots : InitPool(n)
    /\ vfiles = [h \in Handles |-> NoVFile]
    /\ handle_lock = [h \in Handles |-> FreeLock]
    /\ cleanup = [h \in Handles |-> "none"]
    /\ cso = [t \in Tasks |-> NoFrame]
    /\ \/ tasks = [t \in Tasks |-> IdleTask]
       \/ tasks = [t \in Tasks |-> IF t = 1 THEN IdleTask ELSE OffTask]
    /\ fs = [p \in Paths |-> <<p>>]

VictimStep(t) ==
    \/ \E o \in SharedOptions :
          /\ Budget(MaxEvictions)
          /\ \E h \in Handles : vfiles[h].state = "unopened"
          /\ Alone(t) \/ FreeHandle <= MaxFairHandles
          /\ open_with_options(t, PathOf(FreeHandle), o)
    \/ \E h \in Handles, op \in FairOps :
          Budget(MaxEvictions) /\ StartOp(t, h, op)
    \/ \E h \in Handles : drop(t, h)
    \/ Running(t)

NextVictim ==
    \/ \E t \in Tasks : VictimStep(t)
    \/ \E h \in Handles : CleanupStep(h)

SpecVictim == InitVictim /\ [][NextVictim]_vars

(***************************************************************************)
(* The properties.                                                         *)
(***************************************************************************)
LiveHandles == {h \in Handles : vfiles[h].state = "live"}
UsedSlots == {i \in Slots : slots[i].file # NoFile}
InFlight == {t \in Tasks : tasks[t].file # NoFile}
Installing(t) == tasks[t].pc \in {"open_sys", "open_install", "reopen_sys", "reopen_install"}

\* C1: under every interleaving, the descriptor that lock_file hands to an
\* operation on a VirtualFile (the task holds the FileGuard) was opened by
\* that VirtualFile, on its own path: a stale (index, tag) never makes an
\* operation use the descriptor another VirtualFile installed in the slot.
C1_OwnDescriptor ==
    \A t \in Tasks :
        tasks[t].pc = "io" =>
            /\ slots[tasks[t].idx].file # NoFile
            /\ slots[tasks[t].idx].file.owner = tasks[t].h
            /\ slots[tasks[t].idx].file.path = vfiles[tasks[t].h].path

\* an operation got its descriptor by a reopen while the other slot holds the
\* descriptor of a VirtualFile on another path
C1_Witness ==
    \E t \in Tasks, i \in Slots :
        /\ tasks[t].pc = "io"
        /\ tasks[t].via = "reopened"
        /\ i # tasks[t].idx
        /\ slots[i].file # NoFile
        /\ slots[i].file.path # vfiles[tasks[t].h].path

\* C3: the descriptors open at any time (in the slots, or opened by
\* open_with_options or lock_file and not yet installed) are at most the
\* capacity of the pool, and a descriptor is installed only into a slot that
\* is empty and write-locked by the installer.
C3_AtMostCapacity ==
    /\ Cardinality(UsedSlots) + Cardinality(InFlight) <= num_slots
    /\ \A t \in Tasks :
          Installing(t) =>
              /\ HoldsWrite(slot_lock[tasks[t].idx], t)
              /\ slots[tasks[t].idx].file = NoFile

\* a pool of two slots is full: one descriptor in a slot, one opened and about
\* to be installed in the other
C3_Witness ==
    /\ num_slots = 2
    /\ Cardinality(UsedSlots) = 1
    /\ \E t \in Tasks : tasks[t].pc = "reopen_install" /\ tasks[t].file # NoFile

\* C4: a slot's tag never decreases: a step changes it only by adding one, and
\* only the step of find_victim_slot that takes the slot does so; a step that
\* installs a descriptor leaves the tag as it is, and no other VirtualFile
\* caches the (index, tag) the descriptor is installed under.
C4_TagStep ==
    [][\A i \in Slots :
          /\ slots'[i].tag # slots[i].tag =>
                /\ slots'[i].tag = slots[i].tag + 1
                /\ \E t \in Tasks : /\ tasks[t].pc = "fv_take"
                                    /\ tasks[t].idx = i
                                    /\ tasks'[t].pc # "fv_take"
          /\ (slots[i].file = NoFile /\ slots'[i].file # NoFile) =>
                /\ slots'[i].tag = slots[i].tag
                /\ \A g \in Handles :
                      g # slots'[i].file.owner =>
                          vfiles'[g].handle # [index |-> i, tag |-> slots'[i].tag]
      ]_vars

\* a slot was taken twice and holds a descriptor again
C4_Witness == \E i \in Slots : slots[i].tag >= 2 /\ slots[i].file # NoFile

\* the descriptor an operation of VirtualFile h works on when its reference is
\* valid
OwnFile(h) ==
    [path |-> vfiles[h].path, owner |-> h, read |-> vfiles[h].open_options.read,
     write |-> vfiles[h].open_options.write]

ThroughLockFile(t) ==
    tasks[t].op.kind \in {"read_at", "write_at", "sync_all", "metadata", "seek_end"}

\* C6: an operation on a VirtualFile returns an error only if the physical
\* reopen or the syscall failed, never because the reference was stale; when
\* both succeed the result is the one the syscall gives on the VirtualFile's
\* own file.
C6_StalenessAbsorbed ==
    \A t \in Tasks :
        (tasks[t].pc = "done" /\ ThroughLockFile(t)) =>
            IF tasks[t].via = "reopen_failed"
            THEN tasks[t].res \in {ErrRes(e) : e \in Faults \ {"none"}}
            ELSE \E fault \in Faults :
                    tasks[t].res = Syscall(OwnFile(tasks[t].h), fs, tasks[t].op,
                                           vfiles[tasks[t].h].pos, fault).res

\* a read through a reference that was stale returned the file's byte
C6_Witness ==
    \E t \in Tasks :
        /\ tasks[t].pc = "done"
        /\ tasks[t].via = "reopened"
        /\ tasks[t].op.kind = "read_at"
        /\ tasks[t].res = OkRes(1, <<vfiles[tasks[t].h].path>>)

\* C2: with more VirtualFiles open than the pool has slots, a read through
\* any of them succeeds and returns the bytes of its own file from its
\* position to the end: an evicted descriptor is reopened unnoticed.
C2_ReadsAfterEviction ==
    \A t \in Tasks :
        (tasks[t].pc = "done" /\ tasks[t].op.kind = "read_to_end") =>
            /\ tasks[t].res.ok
            /\ tasks[t].res.data =
                  Bytes(fs[vfiles[tasks[t].h].path],
                        vfiles[tasks[t].h].pos - tasks[t].res.n, TmpLen)

\* three VirtualFiles on a pool of two slots are all read to the end, the last
\* of them through a reopen
C2_Witness ==
    /\ num_slots = 2
    /\ Cardinality(LiveHandles) = 3
    /\ \A h \in LiveHandles : vfiles[h].pos = 6
    /\ \E t \in Tasks :
          /\ tasks[t].pc = "done"
          /\ tasks[t].op.kind = "read_to_end"
          /\ tasks[t].via = "reopened"
          /\ tasks[t].res = OkRes(6, fs[vfiles[tasks[t].h].path])

\* the step of task t that ends the physical reopen in lock_file
ReopenStep(t) == tasks[t].pc = "reopen_sys" /\ tasks'[t].pc # "reopen_sys"

\* C7: the options a VirtualFile keeps for its reopens have create, create_new
\* and truncate cleared, so a reopen leaves every file as it is (the bytes
\* written before the eviction stay) and the reopen of a path that is gone
\* fails and does not create the file.
C7_ReopenKeepsFiles ==
    [][\A t \in Tasks :
          ReopenStep(t) =>
              /\ ~vfiles[tasks[t].h].open_options.create
              /\ ~vfiles[tasks[t].h].open_options.create_new
              /\ ~vfiles[tasks[t].h].open_options.truncate
              /\ fs' = fs
              /\ fs[vfiles[tasks[t].h].path] = Absent =>
                    /\ tasks'[t].pc = "done"
                    /\ tasks'[t].res = ErrRes("ENOENT")
      ]_vars

\* a file created through a VirtualFile and written at 3 .. 5 is read back
\* after the descriptor was evicted and reopened
C7_Witness ==
    \E t \in Tasks :
        /\ tasks[t].pc = "done"
        /\ tasks[t].via = "reopened"
        /\ tasks[t].op = ReadAt(3, 2)
        /\ vfiles[tasks[t].h].open_options.write
        /\ tasks[t].res = OkRes(3, <<0, 2, 1>>)

\* the step of task t that reads at the position of its VirtualFile
SequentialRead(t) == tasks[t].pc = "io" /\ tasks[t].op.kind = "read_to_end"

\* a sequential read takes the bytes at self.pos and moves self.pos past them
ReadsAtPos(t) ==
    LET h == tasks[t].h
        b == Bytes(fs[vfiles[h].path], vfiles[h].pos, TmpLen)
    IN  /\ vfiles'[h].pos = vfiles[h].pos + Len(b)
        /\ IF b = <<>>
           THEN tasks'[t].res = OkRes(Len(tasks[t].acc), tasks[t].acc)
           ELSE tasks'[t].acc = tasks[t].acc \o b

\* C8: the position of a VirtualFile changes only in a seek or a sequential
\* read or write on it; the eviction of its descriptor and the reopen leave it
\* alone, and the next sequential read takes the bytes at that position.
C8_PositionKept ==
    [][\A h \in Handles :
          /\ vfiles'[h].pos # vfiles[h].pos =>
                \E t \in Tasks :
                    /\ tasks'[t].h = h
                    /\ \/ /\ tasks[t].pc = "idle"
                          /\ tasks'[t].op.kind \in {"seek_start", "seek_current"}
                       \/ /\ tasks[t].pc = "io"
                          /\ tasks[t].op.kind \in {"seek_end", "read_to_end", "write_all"}
          /\ \A t \in Tasks : (SequentialRead(t) /\ tasks[t].h = h) => ReadsAtPos(t)
      ]_vars

\* the first VirtualFile, left at position 1, has been evicted and reopened
\* and is about to be read
C8_Witness ==
    \E t \in Tasks :
        /\ tasks[t].pc = "io"
        /\ tasks[t].via = "reopened"
        /\ tasks[t].op.kind = "read_to_end"
        /\ tasks[t].acc = <<>>
        /\ tasks[t].h = 1
        /\ vfiles[1].pos = 1

\* the step of task t in which a seek returns
SeekReturns(t) ==
    /\ tasks[t].pc # "done"
    /\ tasks'[t].pc = "done"
    /\ tasks'[t].op.kind \in {"seek_start", "seek_current", "seek_end"}

\* the position a seek asks for
SeekTarget(op, pos, len) ==
    IF op.kind = "seek_start" THEN op.off
    ELSE IF op.kind = "seek_current" THEN pos + op.off
    ELSE len + op.off

\* C9: a seek whose position would be below zero or above the u64 range
\* returns an error and leaves the stored position as it was, for
\* Current-relative and End-relative seeks.
C9_BadSeekRejected ==
    [][\A t \in Tasks :
          SeekReturns(t) =>
              LET h == tasks'[t].h
                  target == SeekTarget(tasks'[t].op, vfiles[h].pos,
                                       Len(fs[vfiles[h].path]))
              IN  (target < 0 \/ target > U64Max) =>
                      /\ ~tasks'[t].res.ok
                      /\ vfiles'[h].pos = vfiles[h].pos
      ]_vars

\* End(-7) on the six bytes of "foobar" has failed with the position left at 1
C9_Witness ==
    \E t \in Tasks :
        /\ tasks[t].pc = "done"
        /\ tasks[t].op = SeekEnd(-7)
        /\ ~tasks[t].res.ok
        /\ fs[vfiles[tasks[t].h].path] = FOOBAR
        /\ vfiles[tasks[t].h].pos = 1

\* C10: a seek that succeeds returns and stores the position asked for:
\* Start(o) gives o, Current(d) gives p + d, End(d) gives L + d; the next
\* sequential read takes the bytes at that position.
C10_SeekStoresPosition ==
    [][\A t \in Tasks :
          /\ (SeekReturns(t) /\ tasks'[t].res.ok) =>
                LET h == tasks'[t].h
                    target == SeekTarget(tasks'[t].op, vfiles[h].pos,
                                         Len(fs[vfiles[h].path]))
                IN  /\ tasks'[t].res = OkRes(target, <<>>)
                    /\ vfiles'[h].pos = target
          /\ (SequentialRead(t) /\ tasks[t].acc = <<>>) =>
                tasks'[t].acc = Bytes(fs[vfiles[tasks[t].h].path],
                                      vfiles[tasks[t].h].pos, TmpLen)
      ]_vars

\* after End(-2) on "foobar" gave 4, the read returned "ar"
C10_Witness ==
    \E t \in Tasks :
        /\ tasks[t].pc = "done"
        /\ tasks[t].op.kind = "read_to_end"
        /\ tasks[t].res = OkRes(2, <<1, 18>>)
        /\ vfiles[tasks[t].h].pos = 6

\* task t is inside find_victim_slot
InFindVictim(t) ==
    tasks[t].pc \in {"fv_fetch", "fv_swap", "fv_try", "fv_write", "fv_take"}

\* C5: under a fair executor every call of find_victim_slot returns with the
\* victim slot locked, also when every slot was locked by another task when
\* the call was made; it does not deadlock.
C5_VictimFound ==
    \A t \in Tasks :
        InFindVictim(t) ~> (tasks[t].pc \in {"open_sys", "reopen_sys"})

\* every slot is locked by another task and the caller, after its bounded
\* number of attempts, waits in slot.inner.write()
C5_Witness ==
    \E t \in Tasks :
        /\ tasks[t].pc = "fv_take"
        /\ ~HoldsWrite(slot_lock[tasks[t].idx], t)
        /\ tasks[t].retries >= 2 * num_slots
        /\ \A s \in Slots : ~TryWriteOk(slot_lock[s])

\* task t is inside a call of write_all
InWriteAll(t) ==
    tasks[t].op.kind = "write_all" /\ tasks[t].pc \notin {"idle", "done"}

\* C11: write_all moves the position by what write_at wrote and writes the
\* bytes where the position was: a write of the whole rest of the buffer ends
\* the call with the position past it, a write of k bytes moves the position
\* by k and leaves the rest of the buffer for the next round, an interrupted
\* write is tried again with the position and the buffer as they were, and a
\* failed write leaves the position; between the writes nothing moves.
C11_WriteAllAdvances ==
    [][\A t \in Tasks :
          InWriteAll(t) =>
              LET h == tasks[t].h
                  p == vfiles[h].pos
                  buf == tasks[t].op.buf
                  rest == tasks'[t].op.buf
                  k == Len(buf) - Len(rest)
                  old == fs[vfiles[h].path]
                  new == fs'[vfiles[h].path]
              IN  IF tasks[t].pc # "io"
                  THEN /\ vfiles'[h].pos = p
                       /\ new = old
                       /\ tasks'[t].pc # "done" => rest = buf
                  ELSE IF tasks'[t].pc = "done"
                  THEN IF tasks'[t].res.ok
                       THEN /\ vfiles'[h].pos = p + Len(buf)
                            /\ new = Overwrite(old, buf, p)
                            /\ Bytes(new, p, Len(buf)) = buf
                       ELSE vfiles'[h].pos = p /\ new = old
                  ELSE IF rest = buf
                  THEN vfiles'[h].pos = p /\ new = old
                  ELSE /\ k > 0
                       /\ rest = SubSeq(buf, k + 1, Len(buf))
                       /\ vfiles'[h].pos = p + k
                       /\ new = Overwrite(old, SubSeq(buf, 1, k), p)
      ]_vars

\* "bar" went out in more than one write_at, the call returned Ok and the
\* position is past the three bytes, which are in the file
C11_Witness ==
    \E t \in Tasks :
        /\ tasks[t].pc = "done"
        /\ tasks[t].op.kind = "write_all"
        /\ tasks[t].res.ok
        /\ Len(tasks[t].op.buf) < Len(BAR)
        /\ vfiles[tasks[t].h].pos = 4
        /\ fs[vfiles[tasks[t].h].path] = <<0>> \o BAR

\* what the first VirtualFile has written since it created the file: it
\* writes "bar" again and again from position 0
Written == SubSeq(BAR \o BAR, 1, vfiles[1].pos)

\* C12: what was written with write_all from position 0 through the
\* VirtualFile that created the file is what a read-only VirtualFile on the
\* same path reads: every read_at of read_to_end gets the written bytes at the
\* reader's position, the call returns them when a read_at gets nothing, a
\* call that began at position 0 returns all that was written, and a call
\* that begins at the end of the file returns zero bytes.
C12_RoundTrip ==
    [][\A t \in Tasks :
          /\ SequentialRead(t) =>
                LET h == tasks[t].h
                    b == Bytes(Written, vfiles[h].pos, TmpLen)
                IN  IF b = <<>>
                    THEN /\ tasks'[t].pc = "done"
                         /\ tasks'[t].res = OkRes(Len(tasks[t].acc), tasks[t].acc)
                         /\ vfiles'[h].pos = vfiles[h].pos
                    ELSE /\ tasks'[t].pc # "done"
                         /\ tasks'[t].acc = tasks[t].acc \o b
                         /\ vfiles'[h].pos = vfiles[h].pos + Len(b)
          /\ (tasks'[t].pc = "done" /\ tasks'[t].op.kind = "read_to_end") =>
                /\ tasks'[t].res.ok
                /\ vfiles'[tasks'[t].h].pos = Len(Written')
                /\ vfiles'[tasks'[t].h].pos = tasks'[t].res.n =>
                      tasks'[t].res.data = Written'
      ]_vars

\* the file was created and "bar" written; a read-only VirtualFile has read
\* it to the end, lost its descriptor, and reads again: zero bytes
C12_Witness ==
    \E t \in Tasks :
        /\ tasks[t].pc = "done"
        /\ tasks[t].op.kind = "read_to_end"
        /\ tasks[t].via = "reopened"
        /\ tasks[t].res = OkRes(0, <<>>)
        /\ vfiles[tasks[t].h].pos = 3
        /\ Written = BAR
        /\ fs[1] = BAR

\* the operation of task t reads the file, or writes it
Reads(t) == tasks[t].op.kind \in {"read_at", "read_to_end"}
Writes(t) == tasks[t].op.kind \in {"write_at", "write_all"}

\* C13: a VirtualFile keeps the access mode asked for when it was opened,
\* also across eviction and reopen: the options stored for the reopens have
\* the read and write flags of the open, a read through a VirtualFile opened
\* without read and a write through one opened without write return an
\* error, and the file is left as it was.
C13_AccessModeKept ==
    [][\A t \in Tasks :
          /\ tasks[t].pc = "open_install" =>
                /\ vfiles'[tasks[t].h].open_options.read = tasks[t].op.opts.read
                /\ vfiles'[tasks[t].h].open_options.write = tasks[t].op.opts.write
          /\ (/\ tasks[t].pc = "io"
              /\ \/ Reads(t) /\ ~vfiles[tasks[t].h].open_options.read
                 \/ Writes(t) /\ ~vfiles[tasks[t].h].open_options.write) =>
                /\ tasks'[t].pc = "done"
                /\ ~tasks'[t].res.ok
                /\ fs' = fs
                /\ vfiles'[tasks[t].h].pos = vfiles[tasks[t].h].pos
      ]_vars

\* a VirtualFile opened write-only lost its descriptor; the read through it
\* reopened the file and failed
C13_Witness ==
    \E t \in Tasks :
        /\ tasks[t].pc = "done"
        /\ tasks[t].via = "reopened"
        /\ Reads(t)
        /\ ~vfiles[tasks[t].h].open_options.read
        /\ tasks[t].res = ErrRes("EBADF")

\* the step in which task t calls init, or open_with_options
CallsInit(t) == tasks[t].pc = "idle" /\ tasks'[t].op.kind = "init"
CallsOpen(t) == tasks[t].pc = "idle" /\ tasks'[t].op.kind = "open"

\* C14: the pool is created once.  The first init(n) sets it to n slots with
\* tag 0, no file, recently_used clear and unlocked, and the clock arm to 0;
\* an init when the pool is set panics and leaves the pool as it is; a pool
\* that is set stays set with the same number of slots; in a build that is
\* not a test build an open before init panics and creates nothing; and
\* where a VirtualFile exists the pool is set.
C14_InitOnce ==
    [][/\ \A t \in Tasks :
             /\ CallsInit(t) =>
                   IF OPEN_FILES = "unset"
                   THEN /\ tasks'[t].res.ok
                        /\ OPEN_FILES' = "set"
                        /\ DOMAIN slots' = 0 .. (tasks'[t].op.len - 1)
                        /\ DOMAIN slot_lock' = DOMAIN slots'
                        /\ \A i \in DOMAIN slots' :
                              /\ slots'[i] = [tag |-> 0, file |-> NoFile,
                                              recently_used |-> FALSE]
                              /\ slot_lock'[i] = FreeLock
                        /\ next' = 0
                   ELSE /\ tasks'[t].res = ErrRes("panic")
                        /\ UNCHANGED <<slots, slot_lock, next, OPEN_FILES>>
             /\ (CallsOpen(t) /\ OPEN_FILES = "unset" /\ ~cfg_test) =>
                   /\ tasks'[t].pc = "done"
                   /\ tasks'[t].res = ErrRes("panic")
                   /\ UNCHANGED <<slots, slot_lock, next, OPEN_FILES, vfiles>>
       /\ OPEN_FILES = "set" =>
             OPEN_FILES' = "set" /\ DOMAIN slots' = DOMAIN slots
       /\ (\E h \in Handles : vfiles'[h].state # "unopened") => OPEN_FILES' = "set"
      ]_vars

\* init was called on a pool of two slots that hold files: it panicked
C14_Witness ==
    \E t \in Tasks :
        /\ tasks[t].pc = "done"
        /\ tasks[t].op.kind = "init"
        /\ tasks[t].res = ErrRes("panic")
        /\ ~cfg_test
        /\ num_slots = 2
        /\ \A i \in Slots : slots[i].file # NoFile /\ slots[i].tag > 0

\* task t is in helper f, and the step of task t in which it leaves it
Calls(t, f) == tasks[t].pc = "call" /\ tasks[t].op.kind = f
Leaves(t, f) == Calls(t, f) /\ tasks'[t] # tasks[t]

\* a task is in a helper that ends the process
AbortDue(u) ==
    \/ Calls(u, "maybe_fatal_err") /\ ~tasks[u].res.ok
                                   /\ tasks[u].res.err \in {"EIO", "EROFS", "EACCES"}
    \/ Calls(u, "fatal_err") /\ ~tasks[u].res.ok

\* task t has returned from its helper with what went in, the others are
\* where they were; or another task has ended the process
ReturnsInput(t) ==
    IF tasks' = Aborted
    THEN \E u \in Tasks \ {t} : AbortDue(u)
    ELSE /\ tasks'[t].pc = "done"
         /\ tasks'[t].res = tasks[t].res
         /\ \A u \in Tasks \ {t} : tasks'[u] = tasks[u]

\* C15: is_fatal_io_error is true for the errors whose errno is EIO, EROFS or
\* EACCES and false for every other error: ENOSPC, EINTR, the other errnos,
\* and the errors built from an ErrorKind without an errno.
C15_FatalCodes ==
    [][\A t \in Tasks :
          (Leaves(t, "is_fatal_io_error") /\ tasks' # Aborted) =>
              /\ tasks'[t].pc = "done"
              /\ tasks'[t].res = BoolRes(tasks[t].res.err \in {"EIO", "EROFS", "EACCES"})
      ]_vars

\* the classification of Interrupted, an error without errno, returned false
\* while the other task has ENOSPC to classify
C15_Witness ==
    \E t, u \in Tasks :
        /\ tasks[t].pc = "done"
        /\ tasks[t].op.kind = "is_fatal_io_error"
        /\ tasks[t].res = BoolRes(FALSE)
        /\ tasks[u].pc = "call"
        /\ tasks[u].op.kind = "is_fatal_io_error"
        /\ tasks[u].res = ErrRes("ENOSPC")

\* C16: maybe_fatal_err ends the process exactly when its input is an error
\* that is classified as fatal; an Ok value and every other error is returned
\* as it came in, and the process goes on.
C16_MaybeFatal ==
    [][\A t \in Tasks :
          Leaves(t, "maybe_fatal_err") =>
              IF ~tasks[t].res.ok /\ tasks[t].res.err \in {"EIO", "EROFS", "EACCES"}
              THEN tasks' = Aborted
              ELSE ReturnsInput(t)
      ]_vars

\* ENOSPC went through maybe_fatal_err and came back, and the other task has
\* been given EIO
C16_Witness ==
    \E t, u \in Tasks :
        /\ tasks[t].pc = "done"
        /\ tasks[t].op.kind = "maybe_fatal_err"
        /\ tasks[t].res = ErrRes("ENOSPC")
        /\ Calls(u, "maybe_fatal_err")
        /\ tasks[u].res = ErrRes("EIO")

\* C17: fatal_err ends the process on every error, fatal by classification
\* or not, and returns the value of an Ok with the process going on.
C17_FatalErr ==
    [][\A t \in Tasks :
          Leaves(t, "fatal_err") =>
              IF ~tasks[t].res.ok THEN tasks' = Aborted ELSE ReturnsInput(t)
      ]_vars

\* an Ok value has come back from fatal_err, and the other task has been
\* given ENOSPC
C17_Witness ==
    \E t, u \in Tasks :
        /\ tasks[t].pc = "done"
        /\ tasks[t].op.kind = "fatal_err"
        /\ tasks[t].res = OkRes(1, <<>>)
        /\ Calls(u, "fatal_err")
        /\ tasks[u].res = ErrRes("ENOSPC")

\* C19: whatever step of crashsafe_overwrite the process crashes at,
\* final_path is afterwards what it was before the call (absent, or the old
\* content) or exactly the content of the call; and so it is at every step
\* of the call.  It never holds a part of the content.
C19_CrashSafe ==
    \A t \in Tasks :
        (cso[t].stage # "none" /\ parent(cso[t].final) # NoParent) =>
            fs[cso[t].final] \in {cso[t].old, cso[t].content}

\* the process crashed with one byte of "bar" in the file at tmp_path, and
\* final_path still holds "foobar"
C19_Witness ==
    \E t \in Tasks :
        /\ cso[t].stage = "crashed"
        /\ cso[t].content = BAR
        /\ fs[cso[t].tmp] = <<2>>
        /\ cso[t].old = FOOBAR
        /\ fs[cso[t].final] = FOOBAR

\* C20: when crashsafe_overwrite returns Ok, final_path holds exactly the
\* content of the call and there is no file at tmp_path, whatever was at the
\* two paths before; after a second call that returned Ok this is the
\* content of the second call.
C20_OverwriteOk ==
    \A t \in Tasks :
        (cso[t].stage = "returned" /\ cso[t].res.ok) =>
            /\ fs[cso[t].final] = cso[t].content
            /\ fs[cso[t].tmp] = Absent

\* the second call, of "bar" over the "foo" of the first, has returned Ok
C20_Witness ==
    \E t \in Tasks :
        /\ cso[t].stage = "returned"
        /\ cso[t].res.ok
        /\ cso[t].n = 2
        /\ cso[t].old = FOO
        /\ cso[t].content = BAR
        /\ fs[cso[t].final] = BAR
        /\ fs[cso[t].tmp] = Absent

\* the errors is_fatal_io_error classifies as fatal, and the operations of
\* a VirtualFile that make a syscall
EnvFatal == {"EIO", "EROFS", "EACCES"}
HandleOps == {"open", "read_at", "write_at", "sync_all", "metadata", "seek_end",
              "write_all", "read_to_end"}

\* C18, as claimed: no operation of a VirtualFile and no call of
\* crashsafe_overwrite returns an error that is classified as fatal (EIO,
\* EROFS, EACCES) to its caller.
C18_FatalNeverReturned ==
    \A t \in Tasks :
        /\ (tasks[t].pc = "done" /\ tasks[t].op.kind \in HandleOps) =>
               tasks[t].res.err \notin EnvFatal
        /\ cso[t].stage = "returned" => cso[t].res.err \notin EnvFatal

\* C18, amended: an error of a physical syscall that is classified as fatal
\* is returned to the caller of the operation (open, read_at, write_at,
\* sync_all, metadata, seek, crashsafe_overwrite) as every other error of a
\* syscall is, and the process goes on; the process ends only in
\* maybe_fatal_err or fatal_err, when the caller passes the result to them.
C18_FatalReturned ==
    [][\A t \in Tasks :
         /\ \A e \in ErrFaults \ {"none"} :
               /\ (open_sys(t, e) \/ reopen_sys(t, e) \/ io(t, e)) =>
                      /\ tasks'[t].pc = "done"
                      /\ tasks'[t].res = ErrRes(e)
               /\ (crashsafe_overwrite(t, 1, 2, BAR, e) \/ cso_rename(t, e)) =>
                      /\ tasks' # Aborted
                      /\ cso'[t].stage = "returned"
                      /\ cso'[t].res = ErrRes(e)
         /\ (cso_next(t) /\ ~tasks[t].res.ok) =>
               /\ tasks' # Aborted
               /\ cso'[t].stage \in {"returned", "drop", "drop_dir"}
               /\ cso'[t].res = tasks[t].res
         /\ cso_return(t) => cso'[t].res = cso[t].res
         /\ (tasks' = Aborted /\ tasks # Aborted) => \E u \in Tasks : AbortDue(u)
      ]_vars

\* read_at has returned EIO to its caller after a reopen of the file
C18_Witness ==
    \E t \in Tasks :
        /\ tasks[t].pc = "done"
        /\ tasks[t].op.kind = "read_at"
        /\ tasks[t].via = "reopened"
        /\ tasks[t].res = ErrRes("EIO")

\* the VirtualFiles that exist in vf: being opened, or open
Held(vf) == {h \in Handles : vf[h].state \in {"opening", "live"}}

\* C21: in every run of crashsafe_overwrite the content is written in full
\* before the file is synced, the file is synced before it is dropped, and
\* the rename is made only when the file is dropped and its descriptor is
\* out of its slot or with the cleanup; the parent directory is opened and
\* synced only after the rename, and the call never has two VirtualFiles.
C21_OverwriteOrder ==
    [][\A t \in Tasks :
         LET f == cso[t]
         IN  /\ (f.stage = "write_all" /\ cso'[t].stage = "sync_all") =>
                   fs[f.tmp] = f.content
             /\ (f.synced = 0 /\ cso'[t].synced > 0) =>
                   /\ f.stage = "sync_all"
                   /\ fs[f.tmp] = f.content
             /\ (f.stage = "drop" /\ f.res.ok /\ vfiles[f.h].state = "live"
                   /\ vfiles'[f.h].state = "dropped") =>
                   f.synced = Len(f.content)
             /\ (~f.renamed /\ cso'[t].renamed) =>
                   /\ fs[f.tmp] = f.content
                   /\ f.synced = Len(f.content)
                   /\ Held(vfiles) = {}
                   /\ \/ \A i \in Slots : slots[i].file.path # f.tmp
                      \/ cleanup[f.h] # "none"
             /\ cso'[t].stage \in {"open_dir", "sync_dir", "drop_dir"} => cso'[t].renamed
             /\ Cardinality(Held(vfiles')) <= 1
      ]_vars

\* the parent directory is open and about to be synced: the rename is done,
\* final_path holds the content and the directory is the one VirtualFile
C21_Witness ==
    \E t \in Tasks :
        /\ cso[t].stage = "sync_dir"
        /\ cso[t].renamed
        /\ cso[t].old = FOOBAR
        /\ fs[cso[t].final] = cso[t].content
        /\ Held(vfiles) = {cso[t].h}
        /\ vfiles[cso[t].h].path = ParentDir

\* c is the first bytes of d, or all of d
IsPrefix(c, d) == Len(c) <= Len(d) /\ c = SubSeq(d, 1, Len(c))

\* the file holds bytes of the contents of both calls: it is not the old
\* file, and not the content of one of the calls or the first part of it
Mixed(c) == c # Absent /\ c # FOOBAR_UPPER /\ \A t \in Tasks : ~IsPrefix(c, ContentOf(t))

\* the call of task t creates its temporary file while there is a file at
\* tmp_path
CreatesOverFile(t) ==
    /\ cso[t].stage = "open_tmp"
    /\ tasks[t].pc = "open_sys"
    /\ fs[cso[t].tmp] # Absent
    /\ tasks'[t] # tasks[t]

\* C22: a call of crashsafe_overwrite that creates its temporary file while
\* a file is at tmp_path (another writer made it after the call removed
\* tmp_path) returns the error and leaves final_path as it is; and with two
\* calls at the same time on the same tmp_path, final_path never holds bytes
\* of both contents.
C22_RaceBailsOut ==
    [][/\ \A t \in Tasks :
            /\ CreatesOverFile(t) =>
                  /\ tasks'[t].pc = "done"
                  /\ tasks'[t].res = ErrRes("EEXIST")
                  /\ fs' = fs
            /\ (cso[t].stage = "open_tmp" /\ tasks[t].pc = "done" /\ ~tasks[t].res.ok
                  /\ cso'[t] # cso[t]) =>
                  /\ cso'[t].stage = "returned"
                  /\ cso'[t].res = tasks[t].res
                  /\ ~cso'[t].renamed
                  /\ fs' = fs
       /\ \A t \in Tasks :
            cso'[t].stage # "none" => ~Mixed(fs'[cso'[t].final])
      ]_vars


\* the step in which VirtualFile h is dropped
DropStep(h) == vfiles[h].state = "live" /\ vfiles'[h].state = "dropped"

\* the step in which the cleanup task spawned by the drop of h runs clean_slot
CleanupRuns(h) == cleanup[h] = "waiting" /\ cleanup'[h] = "none"

\* the slot that h's cached handle names carries another tag
StaleHandle(h) == slots[vfiles[h].handle.index].tag # vfiles[h].handle.tag

\* C23: the drop of a VirtualFile whose cached (index, tag) is stale leaves
\* every slot as it was (descriptor, tag and recently_used flag), both when
\* the drop cleans up itself and when the spawned cleanup task runs later,
\* after the slot was recycled.
C23_StaleDropKeepsSlot ==
    [][\A h \in Handles :
          ((DropStep(h) \/ CleanupRuns(h)) /\ StaleHandle(h)) => slots' = slots]_vars

\* the spawned cleanup of h holds the write guard of a slot that was recycled
\* and now carries another VirtualFile's descriptor
C23_Witness ==
    \E h \in Handles :
        /\ cleanup[h] = "waiting"
        /\ HoldsWrite(slot_lock[vfiles[h].handle.index], CleanupId(h))
        /\ StaleHandle(h)
        /\ slots[vfiles[h].handle.index].file # NoFile
        /\ slots[vfiles[h].handle.index].file.owner # h


\* C24: a drop never waits for a lock.  Whatever the state of the slot's lock
\* (free, held shared, held exclusive, with waiters) the owner's drop can be
\* taken at once; the step takes no lock and queues for none, cleans the slot
\* itself when try_write succeeds and hands the cleanup to a spawned task
\* otherwise.
C24_DropNeverWaits ==
    [][\A h \in Handles :
          /\ (vfiles[h].state = "live" /\ ~InUse(h)) =>
                \A t \in Tasks : tasks[t].pc = "idle" => ENABLED drop(t, h)
          /\ DropStep(h) =>
                /\ slot_lock' = slot_lock
                /\ tasks' = tasks
                /\ IF TryWriteOk(slot_lock[vfiles[h].handle.index])
                   THEN /\ cleanup' = cleanup
                        /\ vfiles'[h] = Dropped
                        /\ slots'[vfiles[h].handle.index] =
                              clean_slot(slots[vfiles[h].handle.index],
                                         vfiles[h].handle.tag)
                   ELSE /\ cleanup'[h] = "spawned"
                        /\ slots' = slots]_vars

\* h was dropped while a task held its slot's lock shared: the cleanup was
\* handed to a spawned task that has not asked for the lock yet
C24_Witness ==
    \E h \in Handles :
        /\ vfiles[h].state = "dropped"
        /\ cleanup[h] = "spawned"
        /\ slot_lock[vfiles[h].handle.index].r \cap Tasks # {}


\* the descriptor of the dropped VirtualFile h is still open in a slot
OpenAfterDrop(h) ==
    /\ vfiles[h].state = "dropped"
    /\ \E i \in Slots : slots[i].file # NoFile /\ slots[i].file.owner = h

\* C25: the descriptor of a dropped VirtualFile with a valid cached handle
\* is closed: in the drop step itself when the slot's lock is free, with
\* recently_used cleared and the tag unchanged, and otherwise eventually,
\* by the spawned cleanup or by an eviction, under weak fairness of the
\* tasks' steps and of the cleanup tasks.
C25_DroppedIsClosed ==
    /\ [][\A h \in Handles :
             (DropStep(h) /\ ~StaleHandle(h)
                 /\ TryWriteOk(slot_lock[vfiles[h].handle.index])) =>
                 /\ slots'[vfiles[h].handle.index].file = NoFile
                 /\ ~slots'[vfiles[h].handle.index].recently_used
                 /\ slots'[vfiles[h].handle.index].tag =
                       slots[vfiles[h].handle.index].tag]_vars
    /\ \A h \in Handles : OpenAfterDrop(h) ~> ~OpenAfterDrop(h)

\* h was dropped with its descriptor in the slot, and its cleanup task is
\* queued for the slot's write lock behind another holder
C25_Witness ==
    \E h \in Handles :
        /\ OpenAfterDrop(h)
        /\ cleanup[h] = "waiting"
        /\ ~HoldsWrite(slot_lock[vfiles[h].handle.index], CleanupId(h))


\* task t is in the reopen section of lock_file: from find_victim_slot to
\* the assignment of the new handle
InReopen(t) ==
    /\ tasks[t].op.kind # "open"
    /\ InFindVictim(t) \/ tasks[t].pc \in {"reopen_sys", "reopen_install"}

\* C26: for every VirtualFile at most one task is in the reopen section of
\* lock_file, and that task holds the handle's write lock through the whole
\* section.
C26_OneReopener ==
    \A h \in Handles :
        LET in == {t \in Tasks : InReopen(t) /\ tasks[t].h = h}
        IN  /\ Cardinality(in) <= 1
            /\ \A t \in in : HoldsWrite(handle_lock[h], t)

\* one task reopens the file of h while another task, which also found the
\* handle stale, is queued for the handle's write lock
C26_Witness ==
    \E t \in Tasks, u \in Tasks :
        /\ t # u
        /\ tasks[t].pc = "reopen_sys" /\ tasks[t].op.kind # "open"
        /\ tasks[u].pc = "lf_recheck" /\ tasks[u].h = tasks[t].h
        /\ ~HoldsWrite(handle_lock[tasks[u].h], u)


\* id is in the queue of lock l
Queued(l, id) == \E k \in 1..Len(l.q) : l.q[k][1] = id

\* task u waits for a lock whose write guard task t holds
WaitsFor(u, t) ==
    \/ \E i \in Slots : Queued(slot_lock[i], u) /\ HoldsWrite(slot_lock[i], t)
    \/ \E h \in Handles : Queued(handle_lock[h], u) /\ HoldsWrite(handle_lock[h], t)

\* task t is at the physical reopen of lock_file for one VirtualFile and
\* task u is in a call on another one
ReopenBeside(t, u) ==
    /\ t # u
    /\ tasks[t].pc \in {"reopen_sys", "reopen_install"}
    /\ tasks[u].pc # "idle"
    /\ tasks[u].h # tasks[t].h

\* C27 as stated: while one VirtualFile is reopened, an operation on another
\* VirtualFile, whatever slot its cached handle names, never waits for a
\* lock the reopening task holds.
C27_NeverWaitsForReopen ==
    \A t \in Tasks, u \in Tasks :
        (ReopenBeside(t, u) /\ tasks[u].op.kind # "open") => ~WaitsFor(u, t)

\* C27, amended: while one VirtualFile is reopened, an operation on another
\* VirtualFile waits for the reopening task only at the lock of the slot
\* that is being filled (its cached handle names that slot, or its own
\* find_victim_slot fell back to the blocking write on it after num_slots * 2
\* failed attempts); it never waits for the other VirtualFile's handle lock,
\* and with a cached handle that names another slot it does not wait for
\* the reopen.
C27_WaitsOnlyForSlot ==
    \A t \in Tasks, u \in Tasks :
        (ReopenBeside(t, u) /\ WaitsFor(u, t)) =>
            /\ tasks[u].pc \in {"lf_check", "fv_take"}
            /\ tasks[u].pc = "fv_take" => tasks[u].retries = num_slots * 2
            /\ tasks[u].idx = tasks[t].idx
            /\ Queued(slot_lock[tasks[t].idx], u)
            /\ \A h \in Handles : ~Queued(handle_lock[h], u)

\* while task t reopens one VirtualFile into a slot, task u holds the
\* FileGuard of another VirtualFile in another slot
C27_Witness ==
    \E t \in Tasks, u \in Tasks :
        /\ ReopenBeside(t, u)
        /\ tasks[t].pc = "reopen_sys"
        /\ tasks[u].op.kind # "open"
        /\ tasks[u].pc = "io"
        /\ tasks[u].idx # tasks[t].idx


\* C28: two read_at/write_at calls on one VirtualFile with a valid cached
\* handle share the slot's read lock.  A call that asks for the read lock of
\* the slot its handle names, when no task holds or waits for the write
\* lock, gets the guard in that step beside the read guards already held;
\* none of the holders loses its guard.
C28_ReadersShare ==
    [][\A u \in Tasks :
          LET i == tasks[u].lh.index
          IN  (/\ tasks[u].pc = "lf_slot_read" /\ tasks'[u].pc = "lf_check"
               /\ slot_lock[i].w = NoTask
               /\ \A k \in 1..Len(slot_lock[i].q) : slot_lock[i].q[k][2] # "w") =>
                  /\ HoldsRead(slot_lock'[i], u)
                  /\ slot_lock'[i].r = slot_lock[i].r \cup {u}]_vars

\* two tasks are in read_at on the same VirtualFile, each holding a
\* FileGuard: a read guard of the same slot, at the same time
C28_Witness ==
    \E t \in Tasks, u \in Tasks :
        /\ t # u
        /\ tasks[t].pc = "io" /\ tasks[u].pc = "io"
        /\ tasks[t].h = tasks[u].h
        /\ tasks[t].op.kind = "read_at" /\ tasks[u].op.kind = "read_at"
        /\ tasks[t].via = "cached" /\ tasks[u].via = "cached"
        /\ HoldsRead(slot_lock[tasks[t].idx], t)
        /\ HoldsRead(slot_lock[tasks[t].idx], u)


\* the number of fetch_add of self.next the call of find_victim_slot that
\* task t is in has made: one for each failed attempt and one for the
\* visit it is at
Advances(t) ==
    tasks[t].retries + (IF tasks[t].pc = "fv_fetch" THEN 0 ELSE 1)

\* C29: a call of find_victim_slot on num_slots slots fails at most
\* num_slots * 2 non-blocking attempts and then waits once, on the next slot
\* it visits, so it advances the cursor at most num_slots * 2 + 1 times; a
\* caller that is alone (no slot is locked) has its slot after at most
\* num_slots + 1 advances and never takes the blocking path.
C29_SweepBound ==
    [][\A t \in Tasks :
          InFindVictim(t) =>
            /\ tasks[t].retries <= num_slots * 2
            /\ Advances(t) <= num_slots * 2 + 1
            /\ tasks[t].pc = "fv_write" => tasks[t].retries = num_slots * 2
            /\ (tasks[t].pc = "fv_write" /\ tasks'[t] # tasks[t]) =>
                  tasks'[t].pc = "fv_take" /\ next' = next
            /\ (tasks[t].pc = "fv_fetch" /\ tasks'[t] # tasks[t]) =>
                  /\ next' = (next + 1) % UsizeModulus
                  /\ Advances(t)' = Advances(t) + 1
            /\ (tasks[t].pc # "fv_fetch" /\ InFindVictim(t)') =>
                  Advances(t)' = Advances(t)
            /\ Alone(t) =>
                  /\ Advances(t) <= num_slots + 1
                  /\ tasks[t].pc # "fv_write"
                  /\ tasks[t].pc = "fv_take" =>
                        HoldsWrite(slot_lock[tasks[t].idx], t)]_vars

\* a call on two slots made num_slots * 2 failed attempts and now waits for
\* the write lock of the slot of its last visit
C29_Witness ==
    \E t \in Tasks :
        /\ num_slots = MaxSlots
        /\ tasks[t].pc = "fv_take"
        /\ tasks[t].retries = num_slots * 2
        /\ Queued(slot_lock[tasks[t].idx], t)


\* the visit of task t to slot tasks[t].idx in the non-blocking phase:
\* the step that tests the flag, the step that tries the lock
FlagStep(t) == tasks[t].pc = "fv_swap" /\ tasks'[t] # tasks[t]
TryStep(t) == tasks[t].pc = "fv_try" /\ tasks'[t] # tasks[t]

\* what a visit of the non-blocking phase does: a slot whose flag is set is
\* passed over with the flag cleared and no lock touched; a slot whose flag
\* was clear is taken when its lock is free and is passed over, without
\* queueing for the lock, when it is not
VisitRules(t) ==
    LET i == tasks[t].idx
    IN  /\ (FlagStep(t) /\ slots[i].recently_used) =>
              /\ tasks'[t].pc = "fv_fetch"
              /\ tasks'[t].retries = tasks[t].retries + 1
              /\ ~slots'[i].recently_used
              /\ slot_lock' = slot_lock
        /\ (FlagStep(t) /\ ~slots[i].recently_used) =>
              /\ tasks'[t].pc = "fv_try"
              /\ slots' = slots /\ slot_lock' = slot_lock
        /\ (TryStep(t) /\ TryWriteOk(slot_lock[i])) =>
              /\ tasks'[t].pc = "fv_take"
              /\ HoldsWrite(slot_lock'[i], t)
        /\ (TryStep(t) /\ ~TryWriteOk(slot_lock[i])) =>
              /\ tasks'[t].pc = "fv_fetch"
              /\ tasks'[t].retries = tasks[t].retries + 1
              /\ slot_lock' = slot_lock

\* C30 as stated: the rules of a visit, and a slot whose recently_used flag
\* is set when it is chosen is chosen on the blocking path only.
C30_ClockSweep ==
    [][\A t \in Tasks :
          /\ VisitRules(t)
          /\ (tasks[t].pc # "fv_take" /\ tasks'[t].pc = "fv_take"
                 /\ slots[tasks[t].idx].recently_used) =>
                tasks[t].pc = "fv_write"]_vars

\* C30, amended: the rules of a visit, and a slot is chosen at a visit that
\* read its flag as set on the blocking path only; a slot is chosen from
\* the lock attempt of a visit that read the flag as clear, whatever the
\* flag is by then, or from the blocking write.
C30_ClockSweepAsRead ==
    [][\A t \in Tasks :
          /\ VisitRules(t)
          /\ (tasks[t].pc # "fv_take" /\ tasks'[t].pc = "fv_take") =>
                \/ tasks[t].pc = "fv_write"
                \/ tasks[t].pc = "fv_try" /\ TryWriteOk(slot_lock[tasks[t].idx])
          /\ (tasks[t].pc = "fv_fetch" /\ tasks'[t].pc = "fv_write") =>
                tasks[t].retries = num_slots * 2]_vars

\* a visit read the flag as clear after an earlier visit cleared a flag that
\* was set, and the slot's lock is held by another task
C30_Witness ==
    \E t \in Tasks :
        /\ tasks[t].pc = "fv_try"
        /\ tasks[t].retries > 0
        /\ ~TryWriteOk(slot_lock[tasks[t].idx])


\* the step in which find_victim_slot returns to task t
VictimReturned(t) == tasks[t].pc = "fv_take" /\ tasks'[t].pc # "fv_take"

\* C31: when find_victim_slot returns (index, tag), the caller holds the
\* write lock of slot index, the slot holds no file, its tag is the returned
\* tag and one more than it was, its recently_used flag is set; the steps of
\* the call change the tag and the file of no other slot.
C31_VictimReady ==
    [][\A t \in Tasks :
          /\ VictimReturned(t) =>
                LET i == tasks'[t].lh.index
                IN  /\ i = tasks[t].idx /\ i \in Slots
                    /\ HoldsWrite(slot_lock'[i], t)
                    /\ slots'[i].file = NoFile
                    /\ slots'[i].tag = tasks'[t].lh.tag
                    /\ slots'[i].tag = slots[i].tag + 1
                    /\ slots'[i].recently_used
                    /\ \A j \in Slots \ {i} : slots'[j] = slots[j]
          /\ (InFindVictim(t) /\ tasks'[t] # tasks[t] /\ ~VictimReturned(t)) =>
                \A j \in Slots : /\ slots'[j].tag = slots[j].tag
                                 /\ slots'[j].file = slots[j].file]_vars

\* find_victim_slot has returned a slot that was in use before: its
\* descriptor is closed, the caller holds the write lock
C31_Witness ==
    \E t \in Tasks :
        /\ tasks[t].pc \in {"open_sys", "reopen_sys"}
        /\ HoldsWrite(slot_lock[tasks[t].lh.index], t)
        /\ slots[tasks[t].lh.index].tag >= 2
        /\ slots[tasks[t].lh.index].file = NoFile
        /\ \E h \in Handles : /\ vfiles[h].state = "live"
                               /\ vfiles[h].handle.index = tasks[t].lh.index
                               /\ vfiles[h].handle.tag = tasks[t].lh.tag - 1


\* the descriptors that VirtualFile h has opened and that are not closed:
\* in slots, and in the hands of a task between the open and the install
DescriptorsOf(h) ==
    Cardinality({i \in Slots : slots[i].file # NoFile /\ slots[i].file.owner = h})
    + Cardinality({t \in Tasks : tasks[t].file # NoFile /\ tasks[t].file.owner = h})

\* C32: a task that gets the handle's write lock after another task has
\* repaired the handle takes the repaired handle, drops the write lock and
\* checks the slot again; when the slot is valid it uses the descriptor that
\* is there and does not reopen.  A VirtualFile never has a second
\* descriptor, neither open in a task's hands nor left in another slot.
C32_RepairedOnce ==
    [][/\ \A h \in Handles : DescriptorsOf(h) <= 1
       /\ \A u \in Tasks :
             LET h == tasks[u].h
             IN  /\ (tasks[u].pc = "lf_recheck" /\ tasks'[u] # tasks[u]
                       /\ vfiles[h].handle # tasks[u].lh) =>
                        /\ tasks'[u].pc = "lf_slot_read"
                        /\ tasks'[u].lh = vfiles[h].handle
                        /\ ~HoldsWrite(handle_lock'[h], u)
                        /\ fs' = fs /\ slots' = slots
                 /\ (tasks[u].pc = "lf_check" /\ tasks'[u] # tasks[u]
                       /\ tasks[u].via = "repaired"
                       /\ SlotValid(slots[tasks[u].idx], tasks[u].lh)) =>
                        /\ tasks'[u].pc = "io"
                        /\ slots'[tasks[u].idx].file = slots[tasks[u].idx].file
                        /\ slots[tasks[u].idx].file.owner = h
                        /\ fs' = fs]_vars

\* two tasks found the handle of one VirtualFile stale; one has reopened the
\* file, the other holds the FileGuard of the same slot through the
\* repaired handle, and the VirtualFile has one descriptor
C32_Witness ==
    \E t \in Tasks, u \in Tasks :
        /\ t # u
        /\ tasks[t].h = tasks[u].h
        /\ tasks[u].pc = "io" /\ tasks[u].via = "repaired"
        /\ tasks[t].via = "reopened" /\ tasks[t].pc \in {"io", "done"}
        /\ DescriptorsOf(tasks[u].h) = 1


\* task t is inside a call of read_exact_at or write_all_at
InExactAt(t) ==
    /\ tasks[t].op.kind \in {"read_exact_at", "write_all_at"}
    /\ tasks[t].pc \notin {"idle", "done"}

OpenFails(t) == tasks[t].pc = "open_sys" /\ tasks'[t].pc = "done"

\* C34: when the open inside open_with_options fails, the error is
\* returned and no VirtualFile is made; the victim slot is left without the
\* caller's lock and without a file, with the tag find_victim_slot gave it,
\* so that a VirtualFile whose handle names the slot is stale and its next
\* operation will reopen.
C34_FailedOpen ==
    [][\A t \in Tasks :
          OpenFails(t) =>
              LET i == tasks[t].idx
              IN  /\ ~tasks'[t].res.ok
                  /\ vfiles'[tasks[t].h] = NoVFile
                  /\ \A g \in Handles \ {tasks[t].h} : vfiles'[g] = vfiles[g]
                  /\ fs' = fs
                  /\ tasks'[t].file = NoFile
                  /\ slot_lock'[i].w # t /\ t \notin slot_lock'[i].r
                  /\ ~Queued(slot_lock'[i], t)
                  /\ slots'[i].file = NoFile
                  /\ slots'[i].tag = tasks[t].lh.tag
                  /\ \A g \in Handles :
                        (vfiles'[g].state = "live" /\ vfiles'[g].handle.index = i) =>
                            /\ vfiles'[g].handle.tag < slots'[i].tag
                            /\ ~SlotValid(slots'[i], vfiles'[g].handle)]_vars

\* an open has failed on the slot that a live VirtualFile was evicted from:
\* the slot is empty and unlocked, one tag ahead of the VirtualFile's handle
C34_Witness ==
    \E t \in Tasks, g \in Handles :
        /\ tasks[t].pc = "done" /\ tasks[t].op.kind = "open" /\ ~tasks[t].res.ok
        /\ vfiles[tasks[t].h].state = "unopened"
        /\ vfiles[g].state = "live"
        /\ slots[vfiles[g].handle.index].tag = vfiles[g].handle.tag + 1
        /\ slots[vfiles[g].handle.index].file = NoFile
        /\ slot_lock[vfiles[g].handle.index] = FreeLock


\* the step in which the reopen of lock_file fails for task t
ReopenFails(t) == tasks[t].pc = "reopen_sys" /\ tasks'[t].pc = "done"

\* C35: when the reopen inside lock_file fails, the error is returned, the
\* VirtualFile keeps its handle and its position, the task holds neither
\* the handle's lock nor the victim slot's lock, the victim slot is left
\* without a file, and the handle is still stale, so that the next
\* operation on the VirtualFile reopens again.
C35_FailedReopen ==
    [][\A t \in Tasks :
          ReopenFails(t) =>
              LET i == tasks[t].idx
                  h == tasks[t].h
              IN  /\ ~tasks'[t].res.ok
                  /\ vfiles' = vfiles
                  /\ fs' = fs
                  /\ tasks'[t].file = NoFile
                  /\ slot_lock'[i].w # t /\ t \notin slot_lock'[i].r
                  /\ ~Queued(slot_lock'[i], t)
                  /\ handle_lock'[h].w # t /\ t \notin handle_lock'[h].r
                  /\ ~Queued(handle_lock'[h], t)
                  /\ slots'[i].file = NoFile
                  /\ slots'[i].tag = tasks[t].lh.tag
                  /\ ~SlotValid(slots'[vfiles'[h].handle.index], vfiles'[h].handle)
                  /\ DescriptorsOf(h)' = 0]_vars

\* the reopen of a VirtualFile has failed for one operation and the next
\* operation on that VirtualFile is at its reopen
C35_Witness ==
    \E t \in Tasks, u \in Tasks :
        /\ tasks[u].pc = "done" /\ tasks[u].via = "reopen_failed" /\ ~tasks[u].res.ok
        /\ tasks[t].pc = "reopen_sys" /\ tasks[t].h = tasks[u].h
        /\ vfiles[tasks[t].h].state = "live"


\* the tasks and the spawned cleanup tasks, as the locks know them
LockUsers == Tasks \cup {CleanupId(h) : h \in Handles}

\* the slots of which id holds a guard
HeldSlots(id) == {i \in Slots : slot_lock[i].w = id \/ id \in slot_lock[i].r}

\* C36: the handle locks and the slot locks do not deadlock.  Whoever waits
\* for a slot's lock holds no slot's guard, whoever waits for a handle's
\* lock holds no slot's guard, and under weak fairness of the tasks' steps
\* and of the cleanup tasks every call that was started returns.
C36_NoDeadlock ==
    /\ [](\A id \in LockUsers :
             /\ (\E i \in Slots : Queued(slot_lock[i], id)) => HeldSlots(id) = {}
             /\ (\E h \in Handles : Queued(handle_lock[h], id)) => HeldSlots(id) = {}
             /\ Cardinality(HeldSlots(id)) <= 1)
    /\ \A t \in Tasks : (tasks[t].pc \notin {"idle", "done"}) ~> (tasks[t].pc = "done")

\* a task holds the write lock of its VirtualFile's handle and waits, in
\* find_victim_slot's blocking write, for a slot that others hold
C36_Witness ==
    \E t \in Tasks :
        /\ tasks[t].pc = "fv_take"
        /\ tasks[t].op.kind # "open"
        /\ HoldsWrite(handle_lock[tasks[t].h], t)
        /\ Queued(slot_lock[tasks[t].idx], t)


\* task t holds a FileGuard: the read guard of slot tasks[t].idx
HoldsFileGuard(t) == tasks[t].pc = "io"

\* C37: while an operation holds a FileGuard, the slot holds a file (the
\* unwrap in FileGuard::as_ref does not panic) and the file in the slot is
\* the same until the guard is released: no eviction and no cleanup of a
\* dropped VirtualFile closes or replaces it.
C37_GuardKeepsFile ==
    [][\A t \in Tasks :
          /\ HoldsFileGuard(t) =>
                /\ HoldsRead(slot_lock[tasks[t].idx], t)
                /\ slot_lock[tasks[t].idx].w = NoTask
                /\ slots[tasks[t].idx].file # NoFile
                /\ slots'[tasks[t].idx].file = slots[tasks[t].idx].file
                /\ slots'[tasks[t].idx].tag = slots[tasks[t].idx].tag
          /\ tasks'[t].pc = "done" => tasks'[t].res.err # "panic"]_vars

\* a task holds a FileGuard while another waits for the write lock of the
\* same slot, to evict the file or to clean up after a drop
C37_Witness ==
    \E t \in Tasks :
        /\ HoldsFileGuard(t)
        /\ \E k \in 1..Len(slot_lock[tasks[t].idx].q) :
              slot_lock[tasks[t].idx].q[k][2] = "w"


\* C38: no two live VirtualFiles hold the same cached (index, tag) pair;
\* every cached tag is at most the tag of the slot it points to; and an
\* unlocked slot whose tag equals the cached tag of a live VirtualFile holds
\* a file, so the validity check finds no file only with a tag mismatch.
C38_HandleTags ==
    /\ \A h, g \in LiveHandles : h # g => vfiles[h].handle # vfiles[g].handle
    /\ \A h \in LiveHandles :
          LET i == vfiles[h].handle.index
          IN  /\ i \in Slots
              /\ vfiles[h].handle.tag <= slots[i].tag
              /\ (slot_lock[i].w = NoTask /\ slots[i].tag = vfiles[h].handle.tag)
                    => slots[i].file # NoFile

\* two live VirtualFiles point to one unlocked slot: one reference is
\* current and the slot holds its file, the other is stale with a lower tag
C38_Witness ==
    \E h, g \in LiveHandles :
        LET i == vfiles[h].handle.index
        IN  /\ vfiles[g].handle.index = i
            /\ vfiles[g].handle.tag < vfiles[h].handle.tag
            /\ vfiles[h].handle.tag = slots[i].tag
            /\ slot_lock[i].w = NoTask /\ slot_lock[i].r = {}
            /\ slots[i].file # NoFile


\* task t advances the clock arm in this step
ClockAdvance(t) == tasks[t].pc = "fv_fetch" /\ tasks'[t] # tasks[t]

\* the index the advance of this step returned to task t, and the index the
\* advance after it returns: the arm modulo the pool size
ReturnedIndex(t) == tasks'[t].idx
FollowingIndex == next' % num_slots

\* the fetch_add of this step wrapped the counter
Wrapped == next' = 0

\* C39 as stated: every advance returns an index i in 0 .. C-1 and the
\* advance after it returns (i + 1) mod C, for every pool size C and also
\* when the counter wraps.
C39_RoundRobin ==
    [][\A t \in Tasks : ClockAdvance(t) =>
          /\ ReturnedIndex(t) \in 0 .. (num_slots - 1)
          /\ FollowingIndex = (ReturnedIndex(t) + 1) % num_slots]_vars

\* C39: every advance returns an index i in 0 .. C-1, and the advance
\* after it returns (i + 1) mod C for every pool size C while the counter
\* does not wrap; when it wraps the order goes on if C divides 2^w, and
\* otherwise the advance after the wrap returns 0, which is not (i + 1) mod C.
C39_RoundRobinUntilWrap ==
    [][\A t \in Tasks : ClockAdvance(t) =>
          /\ ReturnedIndex(t) \in 0 .. (num_slots - 1)
          /\ (~Wrapped \/ UsizeModulus % num_slots = 0)
                => FollowingIndex = (ReturnedIndex(t) + 1) % num_slots
          /\ (Wrapped /\ UsizeModulus % num_slots # 0)
                => /\ FollowingIndex = 0
                   /\ (ReturnedIndex(t) + 1) % num_slots # 0]_vars

\* the counter has wrapped in a pool of two slots: the advance that wrapped
\* it returned index 1 to a task that is still looking at that slot
C39_Witness ==
    \E t \in Tasks :
        /\ num_slots = 2 /\ next = 0
        /\ tasks[t].pc = "fv_swap" /\ tasks[t].idx = 1

\* C40: after init with any capacity it accepts, 0 included, no step of
\* find_victim_slot panics: the advance of the clock arm returns a slot
\* index inside the pool.
C40_AnyCapacity ==
    [][\A t \in Tasks : ClockAdvance(t) =>
          /\ tasks'[t].pc # "done"
          /\ ReturnedIndex(t) \in Slots]_vars

=============================================================================
